---- MODULE Spec2Model ----
(***************************************************************************)
(* gsim: exhaustive enumeration of the serial orderings of a dependency    *)
(* graph.  The module models the graph (GraphNode, AddEdgeTo, callbacks),  *)
(* the parent-chained copy-on-write graphPermutation generator and the     *)
(* Permutations enumerator (ForEach, Permutation) as a state machine.      *)
(***************************************************************************)
EXTENDS Integers, Sequences, FiniteSets, TLC

(***************************************************************************)
(* Bounds of the model.                                                    *)
(***************************************************************************)
\* number of AddEdgeTo calls made on the freely built graph
MaxEdgeCalls == 2
\* Permutation(n) is called with the ordinals ForEach emitted and 0..MaxOrdinal
MaxOrdinal == 2
\* number of Clone calls and of Generate calls made on generators driven directly
MaxClones == 2
MaxGenerateCalls == 3
\* ForEachPar: GOMAXPROCS and batchSize are at most
MaxPar == 2
MaxBatchSize == 2

(***************************************************************************)
(* Values.  Nodes are identified by reference; the model names them.       *)
(***************************************************************************)
\* the nil interface value / nil pointer
nil == "nil"
\* the nodes of the freely built graph
FreeNodes == {"a", "b", "c"}
\* the nodes of the two scenarios of main.go that need more than three nodes
DiamondNodes == {"A1", "A2", "A3", "A4", "A5"}
InhibitNodes == {"E1", "E2", "E3", "E4"}

Range(s) == {s[i] : i \in 1..Len(s)}
\* the element of a set of one element; Only({F(x) : x \in {e}}) is F(e) with
\* e evaluated once
Only(S) == CHOOSE x \in S : TRUE
NoDuplicates(s) == \A i, j \in 1..Len(s) : i # j => s[i] # s[j]

\* GraphNodeStateChange: the three sentinel instances
NoChange == "NoChange"
MakeAvailable == "MakeAvailable"
Inhibit == "Inhibit"

(***************************************************************************)
(* State.                                                                  *)
(***************************************************************************)
VARIABLES
    graph,      \* the GraphNodes: Out, In and Callback of every node
    edgeCalls,  \* AddEdgeTo calls made so far on the freely built graph
    pc,         \* where the driver program is
    gens,       \* heap of graphPermutation objects; a pointer is an index
    sts,        \* heap of graphNodeState objects; a pointer is an index
    p,          \* the Permutations: its root node
    worklist,   \* ForEach: the worklist of *node frames
    perm,       \* ForEach: the reused prefix buffer; Permutation: the result
    emitted,    \* what f.Consume received in the current or last ForEach
    previous,   \* history: while ForEach runs, what the ForEach before it emitted
    pn,         \* Permutation: permNum, and n, what is left of it
    pgen,       \* Permutation: gen
    pval,       \* Permutation: val
    returned,   \* Permutation: the value of the last call that returned
    trail,      \* history: for every frame of the worklist, how it was reached
    leaves,     \* history: for every element of emitted, how it was reached
    parpc,      \* ForEachPar: where the calling goroutine is
    ppc,        \* ForEachPar: the parPermutationConsumer
    batches,    \* ForEachPar: heap of the batch arrays made; a pointer is an index
    ch,         \* ForEachPar: the channel: its buffer, capacity and closed flag
    workers,    \* ForEachPar: the goroutines spawned
    consumers,  \* ForEachPar: f and its clones, with the Consume calls each received
    iso,        \* generators driven directly: what their Generate calls returned
    call        \* functions called directly: the arguments and result of the last call

(***************************************************************************)
(* Callbacks.  A callback value is a record; kind selects the Go type.     *)
(***************************************************************************)
AvailableAnyCallback ==
    [kind |-> "availableAny", result |-> MakeAvailable, required |-> <<>>, callbacks |-> <<>>]
InhibitAnyCallback ==
    [kind |-> "inhibitAny", result |-> Inhibit, required |-> <<>>, callbacks |-> <<>>]
newAllCallback(result, required) ==
    [kind |-> "all", result |-> result, required |-> required, callbacks |-> <<>>]
NewAvailableAllCallback(required) == newAllCallback(MakeAvailable, required)
NewInhibitAllCallback(required) == newAllCallback(Inhibit, required)
\* NewCombinationCallback(InhibitThenAvailableCombiner) followed by AddCallback
\* for every element of callbacks
NewCombinationCallback(callbacks) ==
    [kind |-> "combination", result |-> NoChange, required |-> <<>>, callbacks |-> callbacks]

\* Condition: the three conditions of the two-predicate GraphNode, and what
\* a condition answers for node and its visited incoming nodes
ConditionNever == "ConditionNever"
ConditionAny == "ConditionAny"
ConditionAll == "ConditionAll"
Conditions == {ConditionNever, ConditionAny, ConditionAll}

Condition(c, node, visited) ==
    CASE c = ConditionNever -> FALSE
      [] c = ConditionAny -> Len(visited) # 0
      [] c = ConditionAll -> Len(visited) = Len(graph.In[node])

\* a GraphNodeCallback written by the user from two conditions: Inhibit if
\* inhibitOn holds, else MakeAvailable if availableOn holds, else NoChange
NewConditionCallback(inhibitOn, availableOn) ==
    [kind |-> "conditions", result |-> NoChange, required |-> <<>>, callbacks |-> <<>>,
     inhibitOn |-> inhibitOn, availableOn |-> availableOn]

\* faulty variant: the result is given as soon as one required node is reached
allCallback_AnyRequired(ac, node, reached) ==
    IF Len(reached) >= 1 /\ \E i \in 1..Len(ac.required) :
                               \E j \in 1..Len(reached) : reached[j] = ac.required[i]
    THEN ac.result
    ELSE NoChange

\* allCallback.IncomingEdgesReached
allCallback_IncomingEdgesReached(ac, node, reached) ==
    IF Len(reached) >= Len(ac.required)
    THEN IF \A i \in 1..Len(ac.required) :
               \E j \in 1..Len(reached) : reached[j] = ac.required[i]
         THEN ac.result
         ELSE NoChange
    ELSE NoChange

\* faulty variant: the first answer that is not NoChange is returned
RECURSIVE combinerLoop_FirstWins(_, _, _)
combinerLoop_FirstWins(results, i, finalResult) ==
    IF i > Len(results) THEN finalResult
    ELSE IF results[i] # NoChange THEN results[i]
    ELSE combinerLoop_FirstWins(results, i + 1, finalResult)

\* InhibitThenAvailableCombiner: the loop over results; the first Inhibit
\* returns at once, a MakeAvailable is remembered.
RECURSIVE combinerLoop(_, _, _)
combinerLoop(results, i, finalResult) ==
    IF i > Len(results) THEN finalResult
    ELSE IF results[i] = Inhibit THEN Inhibit
    ELSE IF results[i] = MakeAvailable THEN combinerLoop(results, i + 1, MakeAvailable)
    ELSE combinerLoop(results, i + 1, finalResult)

InhibitThenAvailableCombiner(node, reached, callbacks, results) ==
    combinerLoop(results, 1, NoChange)

\* GraphNodeCallback.IncomingEdgesReached, dispatched on the dynamic type
RECURSIVE IncomingEdgesReached(_, _, _)
IncomingEdgesReached(cb, node, reached) ==
    CASE cb.kind = "availableAny" -> MakeAvailable
      [] cb.kind = "inhibitAny" -> Inhibit
      [] cb.kind = "all" -> allCallback_IncomingEdgesReached(cb, node, reached)
      [] cb.kind = "conditions" ->
            IF Condition(cb.inhibitOn, node, reached) THEN Inhibit
            ELSE IF Condition(cb.availableOn, node, reached) THEN MakeAvailable
            ELSE NoChange
      [] cb.kind = "combination" ->
            InhibitThenAvailableCombiner(node, reached, cb.callbacks,
                [i \in 1..Len(cb.callbacks) |->
                    IncomingEdgesReached(cb.callbacks[i], node, reached)])

(***************************************************************************)
(* The graph.  A graph is a record of the nodes' Out, In and Callback.     *)
(***************************************************************************)
containsGraphNode(gns, gn) == \E i \in 1..Len(gns) : gns[i] = gn

\* NewGraphNode for every node of the set: no edges, the default callback
NewGraphNode(values) ==
    [Out |-> [v \in values |-> <<>>],
     In |-> [v \in values |-> <<>>],
     Callback |-> [v \in values |-> AvailableAnyCallback]]

\* faulty variant: the edge is appended without looking for it
AddEdgeTo_NoCheck(g, gn, gn2) ==
    [g EXCEPT !.Out[gn] = Append(@, gn2), !.In[gn2] = Append(@, gn)]

\* gn.AddEdgeTo(gn2) on graph g
AddEdgeTo(g, gn, gn2) ==
    LET out == IF ~containsGraphNode(g.Out[gn], gn2)
               THEN [g.Out EXCEPT ![gn] = Append(@, gn2)] ELSE g.Out
        in == IF ~containsGraphNode(g.In[gn2], gn)
              THEN [g.In EXCEPT ![gn2] = Append(@, gn)] ELSE g.In
    IN [g EXCEPT !.Out = out, !.In = in]

\* gn.Callback = cb
SetCallback(g, gn, cb) == [g EXCEPT !.Callback[gn] = cb]

RECURSIVE AddEdges(_, _)
AddEdges(g, edges) ==
    IF edges = <<>> THEN g
    ELSE AddEdges(AddEdgeTo(g, Head(edges)[1], Head(edges)[2]), Tail(edges))

\* main.go graphPerms: the diamond A1,A2 -> A3,A4 -> A5 with joins, in the
\* callback surface of the graph generator
DiamondGraph ==
    LET g == AddEdges(NewGraphNode(DiamondNodes),
                 << <<"A1", "A3">>, <<"A1", "A4">>, <<"A2", "A3">>,
                    <<"A2", "A4">>, <<"A3", "A5">>, <<"A4", "A5">> >>)
        g3 == SetCallback(g, "A3", NewAvailableAllCallback(<<"A1", "A2">>))
        g4 == SetCallback(g3, "A4", NewAvailableAllCallback(<<"A1", "A2">>))
    IN SetCallback(g4, "A5", NewAvailableAllCallback(<<"A3", "A4">>))

\* main.go graphPerms: e3 needs e1 and e2; once e3 is reached e4 is inhibited
InhibitGraph ==
    LET g == AddEdges(NewGraphNode(InhibitNodes),
                 << <<"E1", "E3">>, <<"E2", "E3">>, <<"E1", "E4">>,
                    <<"E2", "E4">>, <<"E3", "E4">> >>)
        g3 == SetCallback(g, "E3", NewAvailableAllCallback(<<"E1", "E2">>))
    IN SetCallback(g3, "E4",
           NewCombinationCallback(<< NewInhibitAllCallback(<<"E3">>),
                                     NewAvailableAllCallback(<<"E1">>),
                                     NewAvailableAllCallback(<<"E2">>) >>))

vars == <<graph, edgeCalls, pc, gens, sts, p, worklist, perm, emitted,
          previous, pn, pgen, pval, returned, trail, leaves,
          parpc, ppc, batches, ch, workers, consumers, iso, call>>

\* the variables of ForEachPar
parVars == <<parpc, ppc, batches, ch, workers, consumers>>

\* the heap as one value, threaded through the operators that change it
Heap == [gens |-> gens, sts |-> sts]

(***************************************************************************)
(* graphPermutation and graphNodeState.                                    *)
(***************************************************************************)
\* faulty variant: the copy forgets that the node is available
graphNodeState_Clone_DropsAvailable(H, gns, gp) ==
    IF H.sts[gns].permutation = gp
    THEN [h |-> H, gns |-> gns, found |-> TRUE]
    ELSE LET gns2 == [H.sts[gns] EXCEPT !.permutation = gp, !.available = FALSE]
             id == Len(H.sts) + 1
         IN [h |-> [gens |-> [H.gens EXCEPT ![gp].nodeState[gns2.GraphNode] = id],
                    sts |-> Append(H.sts, gns2)],
             gns |-> id, found |-> TRUE]

\* faulty variant: no copy is made; the ancestor's object is recorded and handed out
graphNodeState_Clone_Shares(H, gns, gp) ==
    [h |-> [H EXCEPT !.gens[gp].nodeState[H.sts[gns].GraphNode] = gns],
     gns |-> gns, found |-> TRUE]

\* graphNodeState.Clone(gp): the state itself when gp owns it, otherwise a
\* copy owned by gp (with its own incomingVisited) recorded in gp.nodeState
graphNodeState_Clone(H, gns, gp) ==
    IF H.sts[gns].permutation = gp
    THEN [h |-> H, gns |-> gns, found |-> TRUE]
    ELSE LET gns2 == [H.sts[gns] EXCEPT !.permutation = gp]
             id == Len(H.sts) + 1
         IN [h |-> [gens |-> [H.gens EXCEPT ![gp].nodeState[gns2.GraphNode] = id],
                    sts |-> Append(H.sts, gns2)],
             gns |-> id, found |-> TRUE]

\* graphPermutation.getNodeState(node, cloneToLocal)
RECURSIVE getNodeState(_, _, _, _)
getNodeState(H, gp, node, cloneToLocal) ==
    IF H.gens[gp].nodeState[node] # 0
    THEN graphNodeState_Clone(H, H.gens[gp].nodeState[node], gp)
    ELSE IF H.gens[gp].parent = 0
    THEN [h |-> H, gns |-> 0, found |-> FALSE]
    ELSE Only({ IF r.found /\ cloneToLocal
                THEN graphNodeState_Clone(r.h, r.gns, gp)
                ELSE IF r.found
                THEN [h |-> [r.h EXCEPT !.gens[gp].nodeState[node] = r.gns],
                      gns |-> r.gns, found |-> TRUE]
                ELSE [h |-> r.h, gns |-> 0, found |-> FALSE]
                : r \in {getNodeState(H, H.gens[gp].parent, node, FALSE)} })

\* append(s[:idx], s[idx+1:]...) at the first idx with s[idx] = x
RemoveFirst(s, x) ==
    IF \E i \in 1..Len(s) : s[i] = x
    THEN LET idx == CHOOSE i \in 1..Len(s) : s[i] = x /\ \A j \in 1..(i - 1) : s[j] # x
         IN SubSeq(s, 1, idx - 1) \o SubSeq(s, idx + 1, Len(s))
    ELSE s

\* NewGraphPermutation(startingNode...): generator 1 of a fresh heap.  A node
\* named twice gets the state made for its last occurrence; the earlier
\* object is unreachable at once and is not kept.
NewGraphPermutation(startingNode) ==
    LET distinct == Range(startingNode)
        last(gn) == CHOOSE i \in 1..Len(startingNode) :
                        startingNode[i] = gn
                        /\ \A j \in (i + 1)..Len(startingNode) : startingNode[j] # gn
        order == CHOOSE s \in [1..Cardinality(distinct) -> distinct] :
                    \A i, j \in 1..Cardinality(distinct) : i < j => last(s[i]) < last(s[j])
        idOf(gn) == CHOOSE i \in 1..Cardinality(distinct) : order[i] = gn
    IN [gens |-> << [parent |-> 0,
                     current |-> startingNode,
                     nodeState |-> [gn \in DOMAIN graph.Out |->
                                       IF gn \in distinct THEN idOf(gn) ELSE 0]] >>,
        sts |-> [i \in 1..Cardinality(distinct) |->
                    [GraphNode |-> order[i], permutation |-> 1, inhibited |-> FALSE,
                     available |-> TRUE, incomingVisited |-> <<>>]]]

\* faulty variant: the clone of a clone is chained to the receiver's parent,
\* so that it misses what the receiver recorded locally
graphPermutation_Clone_SkipsReceiver(H, gp) ==
    [h |-> [H EXCEPT !.gens = Append(@, [parent |-> IF H.gens[gp].parent = 0 THEN gp
                                                   ELSE H.gens[gp].parent,
                                         current |-> H.gens[gp].current,
                                         nodeState |-> [gn \in DOMAIN H.gens[gp].nodeState |-> 0]])],
     gen |-> Len(H.gens) + 1]

\* graphPermutation.Clone
graphPermutation_Clone(H, gp) ==
    [h |-> [H EXCEPT !.gens = Append(@, [parent |-> gp,
                                         current |-> H.gens[gp].current,
                                         nodeState |-> [gn \in DOMAIN H.gens[gp].nodeState |-> 0]])],
     gen |-> Len(H.gens) + 1]

\* faulty variant: MakeAvailable appends the node even when it is already available
applyStateChange_AlwaysAppend(H, gp, gns, change) ==
    LET st == H.sts[gns]
    IN CASE change = Inhibit ->
              IF st.available
              THEN [H EXCEPT !.sts[gns].available = FALSE,
                             !.sts[gns].inhibited = TRUE,
                             !.gens[gp].current = RemoveFirst(@, st.GraphNode)]
              ELSE [H EXCEPT !.sts[gns].inhibited = TRUE]
         [] change = MakeAvailable ->
              [H EXCEPT !.sts[gns].available = TRUE,
                        !.gens[gp].current = Append(@, st.GraphNode)]
         [] OTHER -> H

\* Generate, the state change a callback asked for (lines 351-368)
applyStateChange(H, gp, gns, change) ==
    LET st == H.sts[gns]
    IN CASE change = Inhibit ->
              IF st.available
              THEN [H EXCEPT !.sts[gns].available = FALSE,
                             !.sts[gns].inhibited = TRUE,
                             !.gens[gp].current = RemoveFirst(@, st.GraphNode)]
              ELSE [H EXCEPT !.sts[gns].inhibited = TRUE]
         [] change = MakeAvailable ->
              IF ~st.available
              THEN [H EXCEPT !.sts[gns].available = TRUE,
                             !.gens[gp].current = Append(@, st.GraphNode)]
              ELSE H
         [] OTHER -> H

\* Generate, lines 347-368: the callback of successor gn is asked and its
\* answer applied to the state gns, which gp owns.  acc is the heap so far
\* and, as history, the nodes whose callback returned Inhibit and the
\* callback invocations made so far.
generateCallback(acc, h2, gns, gp, gn) ==
    LET change == IncomingEdgesReached(graph.Callback[gn], gn, h2.sts[gns].incomingVisited)
    IN [h |-> applyStateChange(h2, gp, gns, change),
        inhibitedNow |-> IF change = Inhibit THEN acc.inhibitedNow \cup {gn}
                         ELSE acc.inhibitedNow,
        calls |-> Append(acc.calls, [node |-> gn,
                                     reached |-> h2.sts[gns].incomingVisited,
                                     result |-> change])]

\* faulty variant: lastChosen is put in front of incomingVisited
generateDirty_Prepends(acc, c, gp, lastChosen, gn) ==
    generateCallback(acc,
        [c.h EXCEPT !.sts[c.gns].incomingVisited = <<lastChosen>> \o @],
        c.gns, gp, gn)

\* Generate, lines 329-333: the state is copied for gp (c is the copy) and
\* lastChosen is appended to its incomingVisited
generateDirty(acc, c, gp, lastChosen, gn) ==
    generateCallback(acc,
        [c.h EXCEPT !.sts[c.gns].incomingVisited = Append(@, lastChosen)],
        c.gns, gp, gn)

\* Generate, lines 335-345: the successor has no state yet
generateDefault(acc, r, gp, lastChosen, gn) ==
    generateCallback(acc,
        [gens |-> [r.h.gens EXCEPT ![gp].nodeState[gn] = Len(r.h.sts) + 1],
         sts |-> Append(r.h.sts,
                    [GraphNode |-> gn, permutation |-> gp,
                     inhibited |-> FALSE, available |-> FALSE,
                     incomingVisited |-> <<lastChosen>>])],
        Len(r.h.sts) + 1, gp, gn)

\* faulty variant: a successor that is inhibited is examined like any other
generateSwitch_ExaminesInhibited(acc, r, gp, lastChosen, gn) ==
    IF r.found
    THEN IF containsGraphNode(r.h.sts[r.gns].incomingVisited, lastChosen)
         THEN [acc EXCEPT !.h = r.h]
         ELSE Only({generateDirty(acc, c, gp, lastChosen, gn) :
                       c \in {graphNodeState_Clone(r.h, r.gns, gp)}})
    ELSE generateDefault(acc, r, gp, lastChosen, gn)

\* Generate, lines 316-349: the switch on what getNodeState returned (r)
generateSwitch(acc, r, gp, lastChosen, gn) ==
    IF r.found /\ r.h.sts[r.gns].inhibited
    THEN [acc EXCEPT !.h = r.h]
    ELSE IF r.found
    THEN IF containsGraphNode(r.h.sts[r.gns].incomingVisited, lastChosen)
         THEN [acc EXCEPT !.h = r.h]
         ELSE Only({generateDirty(acc, c, gp, lastChosen, gn) :
                       c \in {graphNodeState_Clone(r.h, r.gns, gp)}})
    ELSE generateDefault(acc, r, gp, lastChosen, gn)

\* Generate, one iteration of the loop over lastChosenState.Out (lines
\* 313-369) for the successor gn
generateSuccessor(acc, gp, lastChosen, gn) ==
    Only({generateSwitch(acc, r, gp, lastChosen, gn) :
             r \in {getNodeState(acc.h, gp, gn, FALSE)}})

RECURSIVE generateLoop(_, _, _, _, _)
generateLoop(acc, gp, lastChosen, out, i) ==
    IF i > Len(out) THEN acc
    ELSE Only({generateLoop(acc2, gp, lastChosen, out, i + 1) :
                  acc2 \in {generateSuccessor(acc, gp, lastChosen, out[i])}})

\* Generate, marking the chosen node (lines 304-311): r is its state, copied
\* for gp
markChosenState(r, gp, lastChosen) ==
    [r.h EXCEPT !.sts[r.gns].inhibited = TRUE,
                !.gens[gp].current = RemoveFirst(@, lastChosen)]

\* faulty variant: the state of the chosen node is not copied for gp
markChosen_NoCopy(H, gp, lastChosen) ==
    Only({markChosenState(r, gp, lastChosen) :
             r \in {getNodeState(H, gp, lastChosen, FALSE)}})

markChosen(H, gp, lastChosen) ==
    Only({markChosenState(r, gp, lastChosen) :
             r \in {getNodeState(H, gp, lastChosen, TRUE)}})

\* Generate, line 371: return gp.current
generateReturn(acc, gp) ==
    [h |-> acc.h, options |-> acc.h.gens[gp].current,
     inhibitedNow |-> acc.inhibitedNow, calls |-> acc.calls]

\* graphPermutation.Generate(lastChosen).  options is gp.current;
\* inhibitedNow is history: the nodes whose callback returned Inhibit; so is
\* calls: the invocations of IncomingEdgesReached, in order.
Generate(H, gp, lastChosen) ==
    IF lastChosen # nil
    THEN Only({generateReturn(acc, gp) :
                  acc \in {generateLoop(
                              Only({[h |-> m, inhibitedNow |-> {}, calls |-> <<>>] :
                                       m \in {markChosen(H, gp, lastChosen)}}),
                              gp, lastChosen, graph.Out[lastChosen], 1)}})
    ELSE generateReturn([h |-> H, inhibitedNow |-> {}, calls |-> <<>>], gp)

(***************************************************************************)
(* Permutations: BuildPermutations, ForEach, Permutation.                  *)
(***************************************************************************)
\* BuildPermutations(gen): the root node
BuildPermutations(gen) ==
    [n |-> 0, depth |-> 0, value |-> nil, generator |-> gen, cumuOpts |-> 1]

\* faulty variant: the buffer is not cut back to the frame's depth
prefixBuffer_NoTruncate(buf, cur) == Append(buf, cur.value)

\* ForEach, line 189: perm = append(perm[:cur.depth], cur.value)
prefixBuffer(buf, cur) == Append(SubSeq(buf, 1, cur.depth), cur.value)

\* faulty variant: the place value is the option count of this step alone
childCumuOpts_NotCumulative(cur, optionCount) == optionCount

\* faulty variant: the option count is added to the place value
childCumuOpts_Sum(cur, optionCount) == cur.cumuOpts + optionCount - 1

\* ForEach, lines 198-199: cumuOpts of the children
childCumuOpts(cur, optionCount) == cur.cumuOpts * optionCount

\* faulty variant: the option index is added without its place value
childN_NoPlaceValue(cur, idx, optionCount) ==
    IF optionCount = 1 THEN cur.n ELSE idx + cur.n

\* faulty variant: the options are counted from one
childN_FromOne(cur, idx, optionCount) ==
    IF optionCount = 1 THEN cur.n ELSE (idx + 1) * cur.cumuOpts + cur.n

\* ForEach, lines 201-208: childN of the option at (0-based) idx
childN(cur, idx, optionCount) ==
    IF optionCount = 1 THEN cur.n ELSE idx * cur.cumuOpts + cur.n

\* faulty variant: the second option reuses the generator, the others get a
\* clone of it
childGenerator_ReuseSecond(H, cur, idx) ==
    IF idx = 1 THEN [h |-> H, gen |-> cur.generator]
    ELSE graphPermutation_Clone(H, cur.generator)

\* ForEach, lines 209-214: the first option reuses the generator, the others
\* get a clone of it
childGenerator(H, cur, idx) ==
    IF idx = 0 THEN [h |-> H, gen |-> cur.generator]
    ELSE graphPermutation_Clone(H, cur.generator)

\* ForEach, lines 200-223: the loop that appends the children to the worklist
RECURSIVE pushChildren(_, _, _, _, _)
pushChildren(H, wl, cur, options, idx) ==
    IF idx >= Len(options) THEN [h |-> H, worklist |-> wl]
    ELSE LET g == childGenerator(H, cur, idx)
             child == [n |-> childN(cur, idx, Len(options)),
                       depth |-> cur.depth + 1,
                       value |-> options[idx + 1],
                       generator |-> g.gen,
                       cumuOpts |-> childCumuOpts(cur, Len(options))]
         IN pushChildren(g.h, Append(wl, child), cur, options, idx + 1)

\* faulty variant: the quotient is one too large
quoRem_QuotientPlusOne(n, optionCount) ==
    [quo |-> n \div optionCount + 1, rem |-> n % optionCount]

\* faulty variant: the remainder is taken but n is not divided
quoRem_KeepsN(n, optionCount) == [quo |-> n, rem |-> n % optionCount]

\* Permutation, lines 249-251: n.QuoRem(n, choiceBig, choiceBig)
quoRem(n, optionCount) == [quo |-> n \div optionCount, rem |-> n % optionCount]

\* The objects no live pointer reaches are reclaimed when ForEach or
\* Permutation returns: the Permutations holds the root generator only.
collect(H) ==
    LET used == {H.gens[1].nodeState[gn] : gn \in DOMAIN H.gens[1].nodeState}
        keep == CHOOSE k \in used : \A u \in used : u <= k
    IN [gens |-> <<H.gens[1]>>, sts |-> SubSeq(H.sts, 1, keep)]

(***************************************************************************)
(* The inputs of the driver program.                                       *)
(***************************************************************************)
\* the callbacks the driver may assign to a node of the freely built graph
CallbackChoices ==
    {InhibitAnyCallback,
     NewAvailableAllCallback(<<"a">>),
     NewInhibitAllCallback(<<"a">>),
     NewCombinationCallback(<<NewInhibitAllCallback(<<"b">>), AvailableAnyCallback>>)}

\* the starting-node lists the driver may pass to NewGraphPermutation; the
\* nodes of the freely built graph are interchangeable, so the lists are
\* given up to renaming
StartingLists ==
    IF DOMAIN graph.Out = DiamondNodes THEN { <<"A1", "A2">> }
    ELSE IF DOMAIN graph.Out = InhibitNodes THEN { <<"E1", "E2">> }
    ELSE { <<"a">>, <<"a", "b">>, <<"a", "b", "c">>, <<"a", "a", "b">> }

NoReturn == [permNum |-> -1, perm |-> <<>>]

(***************************************************************************)
(* Initial states and actions.                                             *)
(***************************************************************************)
\* ForEachPar has not been called
ForEachParNotCalled ==
    /\ parpc = "none"
    /\ ppc = [batch |-> 0, batchIdx |-> 0, batchSize |-> 0]
    /\ batches = <<>>
    /\ ch = [buf |-> <<>>, cap |-> 0, closed |-> FALSE, blocked |-> FALSE]
    /\ workers = <<>>
    /\ consumers = <<>>

\* no generator is driven directly
NotDriven == [shadow |-> [gens |-> <<>>, sts |-> <<>>], last |-> <<>>, slast |-> <<>>,
              chosen |-> <<>>, calls |-> 0]

\* no function was called directly
NoCall == [fn |-> "none"]

Init ==
    /\ graph \in {NewGraphNode(FreeNodes), DiamondGraph, InhibitGraph}
    /\ edgeCalls = 0
    /\ pc = "build"
    /\ gens = <<>>
    /\ sts = <<>>
    /\ p = BuildPermutations(0)
    /\ worklist = <<>>
    /\ perm = <<>>
    /\ emitted = <<>>
    /\ previous = <<>>
    /\ pn = [permNum |-> 0, n |-> 0]
    /\ pgen = 0
    /\ pval = nil
    /\ returned = NoReturn
    /\ trail = <<>>
    /\ leaves = <<>>
    /\ ForEachParNotCalled
    /\ iso = NotDriven
    /\ call = NoCall

\* the driver adds an edge to the freely built graph
DoAddEdgeTo ==
    /\ pc = "build"
    /\ DOMAIN graph.Out = FreeNodes
    /\ edgeCalls < MaxEdgeCalls
    /\ \E gn, gn2 \in FreeNodes : graph' = AddEdgeTo(graph, gn, gn2)
    /\ edgeCalls' = edgeCalls + 1
    /\ UNCHANGED <<pc, gens, sts, p, worklist, perm, emitted, previous,
                   pn, pgen, pval, returned, trail, leaves>>
    /\ UNCHANGED <<parVars, iso, call>>

\* the driver assigns the Callback field of one node of the freely built graph
DoSetCallback ==
    /\ pc = "build"
    /\ DOMAIN graph.Out = FreeNodes
    /\ \A gn \in FreeNodes : graph.Callback[gn] = AvailableAnyCallback
    /\ \E gn \in FreeNodes, cb \in CallbackChoices : graph' = SetCallback(graph, gn, cb)
    /\ UNCHANGED <<edgeCalls, pc, gens, sts, p, worklist, perm, emitted,
                   previous, pn, pgen, pval, returned, trail, leaves>>
    /\ UNCHANGED <<parVars, iso, call>>

\* BuildPermutations(NewGraphPermutation(startingNode...))
DoBuildPermutations ==
    /\ pc = "build"
    /\ \E startingNode \in StartingLists :
          LET H == NewGraphPermutation(startingNode)
          IN /\ gens' = H.gens
             /\ sts' = H.sts
    /\ p' = BuildPermutations(1)
    /\ pc' = "idle"
    /\ UNCHANGED <<graph, edgeCalls, worklist, perm, emitted, previous,
                   pn, pgen, pval, returned, trail, leaves>>
    /\ UNCHANGED <<parVars, iso, call>>

\* s without its k-th element
Without(s, k) == SubSeq(s, 1, k - 1) \o SubSeq(s, k + 1, Len(s))

\* faulty variant: the frame pushed first is taken
popIndex_First(wl) == 1

\* ForEach, lines 185-187: the frame pushed last is taken: l -= 1;
\* cur := worklist[l]; worklist = worklist[:l]
popIndex(wl) == Len(wl)

\* faulty variant: the root frame holds the generator of the Permutations
\* itself, not a clone of it
ForEachSetup_OnRoot ==
    /\ UNCHANGED <<gens, sts>>
    /\ worklist' = << [n |-> p.n, depth |-> p.depth, value |-> nil,
                       generator |-> p.generator, cumuOpts |-> p.cumuOpts] >>
    /\ perm' = <<>>
    /\ emitted' = <<>>
    /\ trail' = << [path |-> <<>>, choice |-> <<>>, offered |-> <<>>,
                     inhibitedAt |-> <<>>] >>
    /\ leaves' = <<>>

\* ForEach, lines 174-182: the buffer and the worklist holding the root frame
ForEachSetup ==
    /\ LET c == graphPermutation_Clone(Heap, p.generator)
       IN /\ gens' = c.h.gens
          /\ sts' = c.h.sts
          /\ worklist' = << [n |-> p.n, depth |-> p.depth, value |-> nil,
                             generator |-> c.gen, cumuOpts |-> p.cumuOpts] >>
    /\ perm' = <<>>
    /\ emitted' = <<>>
    /\ trail' = << [path |-> <<>>, choice |-> <<>>, offered |-> <<>>,
                     inhibitedAt |-> <<>>] >>
    /\ leaves' = <<>>

\* ForEach is called
ForEachCall ==
    /\ pc = "idle"
    /\ ForEachSetup
    /\ previous' = emitted
    /\ returned' = NoReturn
    /\ pc' = "ForEach"
    /\ UNCHANGED <<graph, edgeCalls, p, pn, pgen, pval>>
    /\ UNCHANGED <<parVars, iso, call>>

\* ForEach, lines 195-224: what the iteration does with the options.  cur is
\* the popped frame, t its history, buf the prefix buffer, g what Generate
\* returned, rest the worklist without cur and trest the histories of rest.
ForEachOptions(cur, t, buf, g, rest, trest, offered, inhibitedAt) ==
    IF Len(g.options) = 0
    THEN /\ emitted' = Append(emitted, [n |-> cur.n, perm |-> Tail(buf)])
         /\ leaves' = Append(leaves, [path |-> t.path, choice |-> t.choice,
                                      offered |-> offered,
                                      inhibitedAt |-> inhibitedAt,
                                      cumuOpts |-> cur.cumuOpts])
         /\ worklist' = rest
         /\ trail' = trest
         /\ gens' = g.h.gens
         /\ sts' = g.h.sts
    ELSE /\ \E r \in {pushChildren(g.h, rest, cur, g.options, 0)} :
               /\ worklist' = r.worklist
               /\ gens' = r.h.gens
               /\ sts' = r.h.sts
         /\ trail' = trest
                     \o [i \in 1..Len(g.options) |->
                            [path |-> Append(t.path, g.options[i]),
                             choice |-> Append(t.choice, i - 1),
                             offered |-> offered,
                             inhibitedAt |-> inhibitedAt]]
         /\ UNCHANGED <<emitted, leaves>>

\* ForEach, lines 189-193: the prefix buffer and the call of Generate
ForEachGenerate(cur, t, g, rest, trest) ==
    /\ perm' = prefixBuffer(perm, cur)
    /\ ForEachOptions(cur, t, prefixBuffer(perm, cur), g, rest, trest,
           Append(t.offered, g.options),
           Append(t.inhibitedAt,
               (IF t.inhibitedAt = <<>> THEN {} ELSE t.inhibitedAt[Len(t.inhibitedAt)])
                   \cup g.inhibitedNow))

\* ForEach, lines 184-226: one iteration of the loop
ForEachLoop ==
    /\ pc = "ForEach"
    /\ Len(worklist) # 0
    /\ \E l \in {popIndex(worklist)} :
          \E g \in {Generate(Heap, worklist[l].generator, worklist[l].value)} :
              ForEachGenerate(worklist[l], trail[l], g,
                              Without(worklist, l), Without(trail, l))
    /\ UNCHANGED <<graph, edgeCalls, pc, p, previous, pn, pgen, pval, returned>>
    /\ UNCHANGED <<parVars, iso, call>>

\* ForEach returns when the worklist is empty
ForEachReturn ==
    /\ pc = "ForEach"
    /\ Len(worklist) = 0
    /\ pc' = "idle"
    /\ perm' = <<>>
    /\ previous' = <<>>
    /\ gens' = collect(Heap).gens
    /\ sts' = collect(Heap).sts
    /\ UNCHANGED <<graph, edgeCalls, p, worklist, emitted, pn, pgen, pval,
                   returned, trail, leaves>>
    /\ UNCHANGED <<parVars, iso, call>>

\* the ordinals the driver passes to Permutation
OrdinalChoices == (0..MaxOrdinal) \cup {emitted[i].n : i \in 1..Len(emitted)}

\* Permutation, lines 237-242
PermutationCall ==
    /\ pc = "idle"
    /\ \E permNum \in OrdinalChoices : pn' = [permNum |-> permNum, n |-> permNum]
    /\ perm' = <<>>
    /\ LET c == graphPermutation_Clone(Heap, p.generator)
       IN /\ gens' = c.h.gens
          /\ sts' = c.h.sts
          /\ pgen' = c.gen
    /\ pval' = p.value
    /\ returned' = NoReturn
    /\ pc' = "Permutation"
    /\ UNCHANGED <<graph, edgeCalls, p, worklist, emitted, previous, trail, leaves>>
    /\ UNCHANGED <<parVars, iso, call>>

\* Permutation, lines 249-253: the choice qr.rem is taken and gen replaced
\* by its clone c
PermutationChoose(g, qr, c) ==
    /\ pn' = [pn EXCEPT !.n = qr.quo]
    /\ pval' = g.options[qr.rem + 1]
    /\ perm' = Append(perm, g.options[qr.rem + 1])
    /\ gens' = c.h.gens
    /\ sts' = c.h.sts
    /\ pgen' = c.gen
    /\ UNCHANGED <<pc, returned>>

\* Permutation, lines 244-253: what the iteration does with the options g
PermutationOptions(g) ==
    IF Len(g.options) = 0
    THEN /\ returned' = [permNum |-> pn.permNum, perm |-> perm]
         /\ pc' = "idle"
         /\ gens' = collect(g.h).gens
         /\ sts' = collect(g.h).sts
         /\ pn' = [permNum |-> 0, n |-> 0]
         /\ pgen' = 0
         /\ pval' = nil
         /\ perm' = <<>>
    ELSE PermutationChoose(g, quoRem(pn.n, Len(g.options)),
                           graphPermutation_Clone(g.h, pgen))

\* Permutation, lines 243-254: one iteration of the loop
PermutationLoop ==
    /\ pc = "Permutation"
    /\ \E g \in {Generate(Heap, pgen, pval)} : PermutationOptions(g)
    /\ UNCHANGED <<graph, edgeCalls, p, worklist, emitted, previous, trail, leaves>>
    /\ UNCHANGED <<parVars, iso, call>>

Next ==
    \/ DoAddEdgeTo
    \/ DoSetCallback
    \/ DoBuildPermutations
    \/ ForEachCall
    \/ ForEachLoop
    \/ ForEachReturn
    \/ PermutationCall
    \/ PermutationLoop

Spec == Init /\ [][Next]_vars

\* Permutation runs on the calling goroutine and nothing suspends it: its
\* loop takes its next step
FairSpec == Spec /\ WF_vars(PermutationLoop)

(***************************************************************************)
(* The OptionGenerator driven directly: Clone and Generate called on       *)
(* graphPermutation values in any order, as the interface allows.  Beside  *)
(* every generator runs a copy that shares nothing: the same Generate on a *)
(* generator made by copying the frontier and every node state.            *)
(***************************************************************************)
\* the elements of a finite set in a fixed order
SeqOf(S) == CHOOSE s \in [1..Cardinality(S) -> S] : \A i, j \in 1..Cardinality(S) : i # j => s[i] # s[j]

\* the state of node as generator gp sees it, through the parent chain (0: none)
RECURSIVE viewState(_, _, _)
viewState(H, gp, node) ==
    IF H.gens[gp].nodeState[node] # 0 THEN H.gens[gp].nodeState[node]
    ELSE IF H.gens[gp].parent = 0 THEN 0
    ELSE viewState(H, H.gens[gp].parent, node)

\* a generator with no parent, a copy of gp's frontier and a copy of every
\* node state gp sees
eagerClone(H, gp) ==
    LET known == SeqOf({gn \in DOMAIN H.gens[gp].nodeState : viewState(H, gp, gn) # 0})
        id == Len(H.gens) + 1
        pos(gn) == CHOOSE i \in 1..Len(known) : known[i] = gn
    IN [h |-> [gens |-> Append(H.gens,
                           [parent |-> 0,
                            current |-> H.gens[gp].current,
                            nodeState |-> [gn \in DOMAIN H.gens[gp].nodeState |->
                                              IF viewState(H, gp, gn) # 0
                                              THEN Len(H.sts) + pos(gn) ELSE 0]]),
               sts |-> H.sts \o [i \in 1..Len(known) |->
                          [H.sts[viewState(H, gp, known[i])] EXCEPT !.permutation = id]]],
        gen |-> id]

\* the graphs and starting nodes of the directly driven generators
DrivenGraphs ==
    { AddEdges(NewGraphNode(FreeNodes), << <<"a", "c">> >>),
      AddEdges(NewGraphNode(FreeNodes), << <<"a", "c">>, <<"b", "c">> >>) }

DrivenInit ==
    /\ graph \in DrivenGraphs
    /\ edgeCalls = 0
    /\ pc = "driven"
    /\ gens = NewGraphPermutation(<<"a", "b">>).gens
    /\ sts = NewGraphPermutation(<<"a", "b">>).sts
    /\ p = BuildPermutations(0)
    /\ worklist = <<>>
    /\ perm = <<>>
    /\ emitted = <<>>
    /\ previous = <<>>
    /\ pn = [permNum |-> 0, n |-> 0]
    /\ pgen = 0
    /\ pval = nil
    /\ returned = NoReturn
    /\ trail = <<>>
    /\ leaves = <<>>
    /\ ForEachParNotCalled
    /\ iso = [shadow |-> NewGraphPermutation(<<"a", "b">>),
              last |-> << <<"a", "b">> >>, slast |-> << <<"a", "b">> >>,
              chosen |-> << <<>> >>, calls |-> 0]
    /\ call = NoCall

\* c = gp.Clone()
DrivenClone ==
    /\ pc = "driven"
    /\ Len(gens) < 1 + MaxClones
    /\ \E gp \in 1..Len(gens) :
          /\ gens' = graphPermutation_Clone(Heap, gp).h.gens
          /\ sts' = graphPermutation_Clone(Heap, gp).h.sts
          /\ iso' = [iso EXCEPT !.shadow = eagerClone(iso.shadow, gp).h,
                                !.last = Append(@, iso.last[gp]),
                                !.slast = Append(@, iso.slast[gp]),
                                !.chosen = Append(@, iso.chosen[gp])]
    /\ UNCHANGED <<graph, edgeCalls, pc, p, worklist, perm, emitted, previous,
                   pn, pgen, pval, returned, trail, leaves, parVars, call>>

\* what the call gp.Generate(lastChosen) does to the generators and their copies
DrivenGenerateResult(gp, lastChosen, g, sg) ==
    /\ gens' = g.h.gens
    /\ sts' = g.h.sts
    /\ iso' = [iso EXCEPT !.shadow = sg.h,
                          !.last[gp] = g.options,
                          !.slast[gp] = sg.options,
                          !.chosen[gp] = Append(@, lastChosen),
                          !.calls = @ + 1]

\* gp.Generate(lastChosen), lastChosen one of the options gp offers
DrivenGenerate ==
    /\ pc = "driven"
    /\ iso.calls < MaxGenerateCalls
    /\ \E gp \in 1..Len(gens) :
          \E lastChosen \in Range(gens[gp].current) \cap Range(iso.shadow.gens[gp].current) :
              DrivenGenerateResult(gp, lastChosen, Generate(Heap, gp, lastChosen),
                                   Generate(iso.shadow, gp, lastChosen))
    /\ UNCHANGED <<graph, edgeCalls, pc, p, worklist, perm, emitted, previous,
                   pn, pgen, pval, returned, trail, leaves, parVars, call>>

DrivenNext ==
    \/ DrivenClone
    \/ DrivenGenerate

DrivenSpec == DrivenInit /\ [][DrivenNext]_vars

(***************************************************************************)
(* ForEachPar: the calling goroutine runs ForEach with a                   *)
(* parPermutationConsumer that batches the leaves onto a channel; par      *)
(* goroutines take the batches and call Consume on their clone of f.       *)
(***************************************************************************)
\* faulty variant: the slice of the caller's buffer is kept as it is
permCopy_Alias(buf) == [shared |-> TRUE, elems |-> buf]

\* Consume, lines 99-100: permCopy, a slice of an array of its own
permCopy(buf) == [shared |-> FALSE, elems |-> buf]

\* what a slice holds when it is read: a slice of the prefix buffer of
\* ForEach shows what the buffer holds now
permRead(ref) ==
    IF ref.shared
    THEN [i \in 1..Len(ref.elems) |->
             IF i + 1 <= Len(perm) THEN perm[i + 1] ELSE ref.elems[i]]
    ELSE ref.elems

\* make([]*permN, batchSize)
makeBatch(batchSize) == [i \in 1..batchSize |-> nil]

\* parPermutationConsumer.Consume, lines 99-102, up to the test for a full batch
parPermutationConsumer_Consume(c, bs, n, buf) ==
    [ppc |-> [c EXCEPT !.batchIdx = @ + 1],
     batches |-> [bs EXCEPT ![c.batch][c.batchIdx + 1] = [n |-> n, perm |-> permCopy(buf)]]]

\* faulty variant: flush sends only a full batch
flushNeeded_OnlyFull(c) == c.batchIdx = c.batchSize

\* flush, line 110: if ppc.batchIdx > 0
flushNeeded(c) == c.batchIdx > 0

\* faulty variant: the channel is left open
closeChannel_LeftOpen(c) == c

\* close(ch)
closeChannel(c) == [c EXCEPT !.closed = TRUE]

\* faulty variant: g := f
cloneTarget_Original(cs) == 1

\* g := f.Clone(): the consumer the goroutine will drive, the clone about to
\* be made
cloneTarget(cs) == Len(cs) + 1

\* the graphs ForEachPar is run on
ParGraphs ==
    { NewGraphNode(FreeNodes),
      AddEdges(NewGraphNode(FreeNodes), << <<"b", "c">> >>) }

ParStartingLists == { <<"a", "b">>, <<"a", "b", "c">> }

ParInit ==
    /\ graph \in ParGraphs
    /\ edgeCalls = 0
    /\ pc = "idle"
    /\ \E startingNode \in ParStartingLists :
          /\ gens = NewGraphPermutation(startingNode).gens
          /\ sts = NewGraphPermutation(startingNode).sts
    /\ p = BuildPermutations(1)
    /\ worklist = <<>>
    /\ perm = <<>>
    /\ emitted = <<>>
    /\ previous = <<>>
    /\ pn = [permNum |-> 0, n |-> 0]
    /\ pgen = 0
    /\ pval = nil
    /\ returned = NoReturn
    /\ trail = <<>>
    /\ leaves = <<>>
    /\ ForEachParNotCalled
    /\ iso = NotDriven
    /\ call = NoCall

\* ForEachPar, lines 134-159: the channel, the goroutines, ppc, and the call
\* of p.ForEach(ppc)
ForEachParCall ==
    /\ pc = "idle"
    /\ parpc = "none"
    /\ \E par \in 1..MaxPar, batchSize \in 1..MaxBatchSize :
          /\ ch' = [buf |-> <<>>, cap |-> par * par, closed |-> FALSE, blocked |-> FALSE]
          /\ workers' = [w \in 1..par |-> [pc |-> "clone", g |-> 0,
                                           perms |-> [batch |-> 0, len |-> 0], i |-> 0]]
          /\ ppc' = [batch |-> 1, batchIdx |-> 0, batchSize |-> batchSize]
          /\ batches' = << makeBatch(batchSize) >>
    /\ consumers' = << [owner |-> 0, received |-> <<>>] >>
    /\ ForEachSetup
    /\ pc' = "ForEach"
    /\ parpc' = "ForEach"
    /\ UNCHANGED <<graph, edgeCalls, p, previous, pn, pgen, pval, returned, iso, call>>

\* ForEach, line 195 with f = ppc: Consume stores the leaf and, when the
\* batch is full, goes on to send it
ForEachParConsume(r) ==
    /\ ppc' = r.ppc
    /\ batches' = r.batches
    /\ parpc' = IF r.ppc.batchIdx = r.ppc.batchSize THEN "send" ELSE "ForEach"
    /\ ch' = [ch EXCEPT !.blocked = @ \/ (r.ppc.batchIdx = r.ppc.batchSize
                                          /\ Len(ch.buf) = ch.cap)]

\* one iteration of the loop of ForEach, run by the calling goroutine
ForEachParLoop ==
    /\ pc = "ForEach"
    /\ parpc = "ForEach"
    /\ Len(worklist) # 0
    /\ \E l \in {popIndex(worklist)} :
          \E g \in {Generate(Heap, worklist[l].generator, worklist[l].value)} :
              ForEachGenerate(worklist[l], trail[l], g,
                              Without(worklist, l), Without(trail, l))
    /\ IF Len(emitted') > Len(emitted)
       THEN ForEachParConsume(
                parPermutationConsumer_Consume(ppc, batches,
                    emitted'[Len(emitted')].n, emitted'[Len(emitted')].perm))
       ELSE UNCHANGED <<ppc, batches, parpc, ch>>
    /\ UNCHANGED <<graph, edgeCalls, pc, p, previous, pn, pgen, pval, returned,
                   workers, consumers, iso, call>>

\* Consume, lines 103-106: ppc.ch <- ppc.batch, once the channel has room
ForEachParSend ==
    /\ parpc = "send"
    /\ Len(ch.buf) < ch.cap
    /\ ch' = [ch EXCEPT !.buf = Append(@, [batch |-> ppc.batch, len |-> ppc.batchSize])]
    /\ batches' = Append(batches, makeBatch(ppc.batchSize))
    /\ ppc' = [ppc EXCEPT !.batch = Len(batches) + 1, !.batchIdx = 0]
    /\ parpc' = "ForEach"
    /\ UNCHANGED <<graph, edgeCalls, pc, gens, sts, p, worklist, perm, emitted,
                   previous, pn, pgen, pval, returned, trail, leaves,
                   workers, consumers, iso, call>>

\* p.ForEach(ppc) returns
ForEachParInnerReturn ==
    /\ pc = "ForEach"
    /\ parpc = "ForEach"
    /\ Len(worklist) = 0
    /\ pc' = "ForEachPar"
    /\ parpc' = "flush"
    /\ UNCHANGED <<graph, edgeCalls, gens, sts, p, worklist, perm, emitted,
                   previous, pn, pgen, pval, returned, trail, leaves,
                   ppc, batches, ch, workers, consumers, iso, call>>

\* ppc.flush(), lines 109-115
ForEachParFlush ==
    /\ parpc = "flush"
    /\ IF flushNeeded(ppc)
       THEN /\ Len(ch.buf) < ch.cap
            /\ ch' = [ch EXCEPT !.buf = Append(@, [batch |-> ppc.batch,
                                                   len |-> ppc.batchIdx])]
            /\ batches' = Append(batches, makeBatch(ppc.batchSize))
            /\ ppc' = [ppc EXCEPT !.batch = Len(batches) + 1, !.batchIdx = 0]
       ELSE UNCHANGED <<ch, batches, ppc>>
    /\ parpc' = "close"
    /\ UNCHANGED <<graph, edgeCalls, pc, gens, sts, p, worklist, perm, emitted,
                   previous, pn, pgen, pval, returned, trail, leaves,
                   workers, consumers, iso, call>>

\* close(ch), line 163
ForEachParClose ==
    /\ parpc = "close"
    /\ ch' = closeChannel(ch)
    /\ parpc' = "wait"
    /\ UNCHANGED <<graph, edgeCalls, pc, gens, sts, p, worklist, perm, emitted,
                   previous, pn, pgen, pval, returned, trail, leaves,
                   ppc, batches, workers, consumers, iso, call>>

\* wg.Wait(), line 164, and the return of ForEachPar
ForEachParWait ==
    /\ parpc = "wait"
    /\ \A w \in 1..Len(workers) : workers[w].pc = "done"
    /\ parpc' = "returned"
    /\ UNCHANGED <<graph, edgeCalls, pc, gens, sts, p, worklist, perm, emitted,
                   previous, pn, pgen, pval, returned, trail, leaves,
                   ppc, batches, ch, workers, consumers, iso, call>>

\* goroutine w, line 142: g := f.Clone()
WorkerClone(w) ==
    /\ workers[w].pc = "clone"
    /\ consumers' = Append(consumers, [owner |-> w, received |-> <<>>])
    /\ workers' = [workers EXCEPT ![w].pc = "recv", ![w].g = cloneTarget(consumers)]
    /\ UNCHANGED <<graph, edgeCalls, pc, gens, sts, p, worklist, perm, emitted,
                   previous, pn, pgen, pval, returned, trail, leaves,
                   parpc, ppc, batches, ch, iso, call>>

\* goroutine w, line 144: perms, ok := <-ch, a batch is received
WorkerRecv(w) ==
    /\ workers[w].pc = "recv"
    /\ ch.buf # <<>>
    /\ ch' = [ch EXCEPT !.buf = Tail(@)]
    /\ workers' = [workers EXCEPT ![w].pc = "range", ![w].perms = Head(ch.buf), ![w].i = 0]
    /\ UNCHANGED <<graph, edgeCalls, pc, gens, sts, p, worklist, perm, emitted,
                   previous, pn, pgen, pval, returned, trail, leaves,
                   parpc, ppc, batches, consumers, iso, call>>

\* goroutine w, lines 144-147 and 141: the channel is closed and empty, the
\* goroutine returns and wg.Done() runs
WorkerDone(w) ==
    /\ workers[w].pc = "recv"
    /\ ch.buf = <<>>
    /\ ch.closed
    /\ workers' = [workers EXCEPT ![w].pc = "done"]
    /\ UNCHANGED <<graph, edgeCalls, pc, gens, sts, p, worklist, perm, emitted,
                   previous, pn, pgen, pval, returned, trail, leaves,
                   parpc, ppc, batches, ch, consumers, iso, call>>

\* the Consume call of goroutine w on the element it has reached
WorkerConsumeCall(w, item) ==
    consumers' = [consumers EXCEPT ![workers[w].g].received =
                     Append(@, [n |-> item.n, perm |-> permRead(item.perm), by |-> w])]

\* goroutine w, lines 148-150: g.Consume(perm.n, perm.perm) for the next
\* element of perms
WorkerConsume(w) ==
    /\ workers[w].pc = "range"
    /\ WorkerConsumeCall(w, batches[workers[w].perms.batch][workers[w].i + 1])
    /\ workers' = [workers EXCEPT
                      ![w].i = @ + 1,
                      ![w].pc = IF workers[w].i + 1 = workers[w].perms.len
                                THEN "recv" ELSE "range"]
    /\ UNCHANGED <<graph, edgeCalls, pc, gens, sts, p, worklist, perm, emitted,
                   previous, pn, pgen, pval, returned, trail, leaves,
                   parpc, ppc, batches, ch, iso, call>>

\* the calling goroutine
Producer ==
    \/ ForEachParLoop
    \/ ForEachParSend
    \/ ForEachParInnerReturn
    \/ ForEachParFlush
    \/ ForEachParClose
    \/ ForEachParWait

\* goroutine w
Worker(w) ==
    \/ WorkerClone(w)
    \/ WorkerRecv(w)
    \/ WorkerDone(w)
    \/ WorkerConsume(w)

ParNext ==
    \/ ForEachParCall
    \/ Producer
    \/ \E w \in 1..Len(workers) : Worker(w)

ParSpec == ParInit /\ [][ParNext]_vars

\* the goroutines are scheduled fairly
ParFairSpec ==
    /\ ParSpec
    /\ WF_vars(Producer)
    /\ \A w \in 1..MaxPar : WF_vars(w <= Len(workers) /\ Worker(w))

(***************************************************************************)
(* The callbacks called directly: IncomingEdgesReached on callbacks built  *)
(* by the constructors, over bounded sets of arguments.                    *)
(***************************************************************************)
\* the longest required list and the longest list of sub-callbacks
MaxRequired == 2
MaxCallbacks == 3

\* the sequences over S of length at most n
SeqsUpTo(S, n) == UNION {[1..k -> S] : k \in 0..n}

\* the lists of required nodes: empty, and with a node named twice, too
RequiredLists == SeqsUpTo(FreeNodes, MaxRequired)

\* the duplicate-free lists of reached nodes
ReachedLists == {r \in SeqsUpTo(FreeNodes, Cardinality(FreeNodes)) : NoDuplicates(r)}

\* the sub-callbacks a CombinationCallback is given
SubCallbacks ==
    {AvailableAnyCallback, InhibitAnyCallback,
     NewAvailableAllCallback(<<"a">>), NewInhibitAllCallback(<<"b">>),
     NewAvailableAllCallback(<<"a", "b">>)}

CallbackInit ==
    /\ graph = NewGraphNode(FreeNodes)
    /\ edgeCalls = 0
    /\ pc = "calls"
    /\ gens = <<>>
    /\ sts = <<>>
    /\ p = BuildPermutations(0)
    /\ worklist = <<>>
    /\ perm = <<>>
    /\ emitted = <<>>
    /\ previous = <<>>
    /\ pn = [permNum |-> 0, n |-> 0]
    /\ pgen = 0
    /\ pval = nil
    /\ returned = NoReturn
    /\ trail = <<>>
    /\ leaves = <<>>
    /\ ForEachParNotCalled
    /\ iso = NotDriven
    /\ call = NoCall

\* cb.IncomingEdgesReached(node, reached) is called, once in a behaviour;
\* results are the answers of cb's sub-callbacks
CallIncomingEdgesReached(fn, cb, node, reached) ==
    /\ call = NoCall
    /\ call' = [fn |-> fn, cb |-> cb, node |-> node, reached |-> reached,
                results |-> [i \in 1..Len(cb.callbacks) |->
                                IncomingEdgesReached(cb.callbacks[i], node, reached)],
                result |-> IncomingEdgesReached(cb, node, reached)]
    /\ UNCHANGED <<graph, edgeCalls, pc, gens, sts, p, worklist, perm, emitted,
                   previous, pn, pgen, pval, returned, trail, leaves, parVars, iso>>

\* a callback of NewAvailableAllCallback or NewInhibitAllCallback is called
CallAllCallback ==
    /\ pc = "calls"
    /\ \E required \in RequiredLists : \E reached \in ReachedLists :
          \/ CallIncomingEdgesReached("all", NewAvailableAllCallback(required), "c", reached)
          \/ CallIncomingEdgesReached("all", NewInhibitAllCallback(required), "c", reached)

\* a CombinationCallback with the InhibitThenAvailableCombiner is called
CallCombinationCallback ==
    /\ pc = "calls"
    /\ \E callbacks \in SeqsUpTo(SubCallbacks, MaxCallbacks) : \E reached \in ReachedLists :
          CallIncomingEdgesReached("combination", NewCombinationCallback(callbacks),
                                   "c", reached)

CallbackNext ==
    \/ CallAllCallback
    \/ CallCombinationCallback

CallbackSpec == CallbackInit /\ [][CallbackNext]_vars

(***************************************************************************)
(* The two callback surfaces.  The generator of graph.go asks two          *)
(* conditions of the node, InhibitOn and AvailableOn; the generator above  *)
(* asks one callback.  Both are driven directly by the same Clone and      *)
(* Generate calls: gens and sts are the heap of the callback generator,    *)
(* iso.shadow the heap of the condition generator.                         *)
(***************************************************************************)
\* GraphNode.InhibitOn and GraphNode.AvailableOn: the node's callback is the
\* one built from the same two conditions
InhibitOn(gn) == graph.Callback[gn].inhibitOn
AvailableOn(gn) == graph.Callback[gn].availableOn

\* faulty variant: AvailableOn is asked before InhibitOn
conditionsApply_AvailableFirst(h2, gp, gns, gn) ==
    IF ~h2.sts[gns].available
       /\ Condition(AvailableOn(gn), gn, h2.sts[gns].incomingVisited)
    THEN [h2 EXCEPT !.sts[gns].available = TRUE,
                    !.gens[gp].current = Append(@, gn)]
    ELSE IF Condition(InhibitOn(gn), gn, h2.sts[gns].incomingVisited)
    THEN IF h2.sts[gns].available
         THEN [h2 EXCEPT !.sts[gns].available = FALSE,
                         !.sts[gns].inhibited = TRUE,
                         !.gens[gp].current = RemoveFirst(@, gn)]
         ELSE [h2 EXCEPT !.sts[gns].inhibited = TRUE]
    ELSE h2

\* graph.go, Generate, lines 375-394: InhibitOn, then AvailableOn unless the
\* node is available already
conditionsApply(h2, gp, gns, gn) ==
    IF Condition(InhibitOn(gn), gn, h2.sts[gns].incomingVisited)
    THEN IF h2.sts[gns].available
         THEN [h2 EXCEPT !.sts[gns].available = FALSE,
                         !.sts[gns].inhibited = TRUE,
                         !.gens[gp].current = RemoveFirst(@, gn)]
         ELSE [h2 EXCEPT !.sts[gns].inhibited = TRUE]
    ELSE IF h2.sts[gns].available THEN h2
    ELSE IF Condition(AvailableOn(gn), gn, h2.sts[gns].incomingVisited)
    THEN [h2 EXCEPT !.sts[gns].available = TRUE,
                    !.gens[gp].current = Append(@, gn)]
    ELSE h2

\* graph.go, Generate, lines 340-373: the switch on what getNodeState
\* returned (r), as in the callback generator
conditionsSwitch(H, r, gp, lastChosen, gn) ==
    IF r.found /\ r.h.sts[r.gns].inhibited
    THEN r.h
    ELSE IF r.found
    THEN IF containsGraphNode(r.h.sts[r.gns].incomingVisited, lastChosen)
         THEN r.h
         ELSE Only({conditionsApply(
                        [c.h EXCEPT !.sts[c.gns].incomingVisited = Append(@, lastChosen)],
                        gp, c.gns, gn) :
                       c \in {graphNodeState_Clone(r.h, r.gns, gp)}})
    ELSE conditionsApply(
             [gens |-> [r.h.gens EXCEPT ![gp].nodeState[gn] = Len(r.h.sts) + 1],
              sts |-> Append(r.h.sts,
                         [GraphNode |-> gn, permutation |-> gp,
                          inhibited |-> FALSE, available |-> FALSE,
                          incomingVisited |-> <<lastChosen>>])],
             gp, Len(r.h.sts) + 1, gn)

\* graph.go, Generate, lines 337-395: the loop over lastChosenState.Out
RECURSIVE conditionsLoop(_, _, _, _, _)
conditionsLoop(H, gp, lastChosen, out, i) ==
    IF i > Len(out) THEN H
    ELSE Only({conditionsLoop(h2, gp, lastChosen, out, i + 1) :
                  h2 \in {Only({conditionsSwitch(H, r, gp, lastChosen, out[i]) :
                                   r \in {getNodeState(H, gp, out[i], FALSE)}})}})

\* graph.go, graphPermutation.Generate(lastChosen) of the condition generator
GenerateConditions(H, gp, lastChosen) ==
    IF lastChosen # nil
    THEN Only({[h |-> h2, options |-> h2.gens[gp].current] :
                  h2 \in {conditionsLoop(markChosen(H, gp, lastChosen), gp, lastChosen,
                                         graph.Out[lastChosen], 1)}})
    ELSE [h |-> H, options |-> H.gens[gp].current]

\* the graphs of the two surfaces: a and b are starting nodes with edges to
\* c, and c to b; every node has its two conditions
SurfaceGraphs ==
    { [AddEdges(NewGraphNode(FreeNodes),
                << <<"a", "c">>, <<"b", "c">>, <<"c", "b">> >>)
          EXCEPT !.Callback = [gn \in FreeNodes |->
                                  IF gn = "c" THEN NewConditionCallback(ci, ca)
                                  ELSE IF gn = "b" THEN NewConditionCallback(bi, ConditionAny)
                                  ELSE NewConditionCallback(ConditionNever, ConditionAny)]] :
        ci \in Conditions, ca \in Conditions, bi \in Conditions }

SurfaceInit ==
    /\ graph \in SurfaceGraphs
    /\ edgeCalls = 0
    /\ pc = "surfaces"
    /\ gens = NewGraphPermutation(<<"a", "b">>).gens
    /\ sts = NewGraphPermutation(<<"a", "b">>).sts
    /\ p = BuildPermutations(0)
    /\ worklist = <<>>
    /\ perm = <<>>
    /\ emitted = <<>>
    /\ previous = <<>>
    /\ pn = [permNum |-> 0, n |-> 0]
    /\ pgen = 0
    /\ pval = nil
    /\ returned = NoReturn
    /\ trail = <<>>
    /\ leaves = <<>>
    /\ ForEachParNotCalled
    /\ iso = [shadow |-> NewGraphPermutation(<<"a", "b">>),
              last |-> << <<"a", "b">> >>, slast |-> << <<"a", "b">> >>,
              chosen |-> << <<>> >>, calls |-> 0]
    /\ call = NoCall

\* c = gp.Clone() on both generators
SurfaceClone ==
    /\ pc = "surfaces"
    /\ Len(gens) < 1 + MaxClones
    /\ \E gp \in 1..Len(gens) :
          /\ gens' = graphPermutation_Clone(Heap, gp).h.gens
          /\ sts' = graphPermutation_Clone(Heap, gp).h.sts
          /\ iso' = [iso EXCEPT !.shadow = graphPermutation_Clone(iso.shadow, gp).h,
                                !.last = Append(@, iso.last[gp]),
                                !.slast = Append(@, iso.slast[gp]),
                                !.chosen = Append(@, iso.chosen[gp])]
    /\ UNCHANGED <<graph, edgeCalls, pc, p, worklist, perm, emitted, previous,
                   pn, pgen, pval, returned, trail, leaves, parVars, call>>

\* gp.Generate(lastChosen) on both generators, lastChosen one of the options
\* both offer
SurfaceGenerate ==
    /\ pc = "surfaces"
    /\ iso.calls < MaxGenerateCalls + 1
    /\ \E gp \in 1..Len(gens) :
          \E lastChosen \in Range(gens[gp].current) \cap Range(iso.shadow.gens[gp].current) :
              DrivenGenerateResult(gp, lastChosen, Generate(Heap, gp, lastChosen),
                                   GenerateConditions(iso.shadow, gp, lastChosen))
    /\ UNCHANGED <<graph, edgeCalls, pc, p, worklist, perm, emitted, previous,
                   pn, pgen, pval, returned, trail, leaves, parVars, call>>

SurfaceNext ==
    \/ SurfaceClone
    \/ SurfaceGenerate

SurfaceSpec == SurfaceInit /\ [][SurfaceNext]_vars

(***************************************************************************)
(* simplePermutation, the generator without dependencies.  S is the heap   *)
(* of simplePermutation objects; NewSimplePermutation(elems) is object 1   *)
(* of a fresh heap and keeps elems as its remains.                         *)
(***************************************************************************)
NewSimplePermutation(elems) == << [remains |-> elems] >>

\* faulty variant: Clone returns the receiver
simplePermutation_Clone_Receiver(S, sp) == [s |-> S, gen |-> sp]

\* simplePermutation.Clone: a new object with a copy of remains
simplePermutation_Clone(S, sp) ==
    [s |-> Append(S, [remains |-> S[sp].remains]), gen |-> Len(S) + 1]

\* simplePermutation.Generate(lastChosen): the first element equal to
\* lastChosen is taken out of remains, and remains is returned
simplePermutation_Generate(S, sp, lastChosen) ==
    [s |-> [S EXCEPT ![sp].remains = RemoveFirst(@, lastChosen)],
     options |-> RemoveFirst(S[sp].remains, lastChosen)]

\* ForEach, lines 209-214, over simplePermutation
simpleChildGenerator(S, cur, idx) ==
    IF idx = 0 THEN [s |-> S, gen |-> cur.generator]
    ELSE simplePermutation_Clone(S, cur.generator)

\* ForEach, lines 200-223, over simplePermutation
RECURSIVE simplePush(_, _, _, _, _)
simplePush(S, wl, cur, options, idx) ==
    IF idx >= Len(options) THEN [s |-> S, worklist |-> wl]
    ELSE Only({simplePush(g.s,
                   Append(wl, [n |-> childN(cur, idx, Len(options)),
                               depth |-> cur.depth + 1,
                               value |-> options[idx + 1],
                               generator |-> g.gen,
                               cumuOpts |-> childCumuOpts(cur, Len(options))]),
                   cur, options, idx + 1) :
                 g \in {simpleChildGenerator(S, cur, idx)}})

RECURSIVE simpleForEach(_, _, _, _)
\* ForEach, lines 194-225, over simplePermutation
simpleOptions(cur, rest, buf, g, out) ==
    IF Len(g.options) = 0
    THEN simpleForEach(g.s, rest, buf, Append(out, [n |-> cur.n, perm |-> Tail(buf)]))
    ELSE Only({simpleForEach(r.s, r.worklist, buf, out) :
                 r \in {simplePush(g.s, rest, cur, g.options, 0)}})

\* ForEach, lines 184-226, over simplePermutation: the leaves in order, and
\* the heap when the worklist is empty
simpleForEach(S, wl, buf, out) ==
    IF wl = <<>> THEN [emitted |-> out, s |-> S]
    ELSE Only({simpleOptions(wl[Len(wl)], SubSeq(wl, 1, Len(wl) - 1), b, g, out) :
                 b \in {prefixBuffer(buf, wl[Len(wl)])},
                 g \in {simplePermutation_Generate(S, wl[Len(wl)].generator,
                                                   wl[Len(wl)].value)}})

\* BuildPermutations(NewSimplePermutation(elems)).ForEach(f)
simpleEnumeration(elems) ==
    Only({simpleForEach(c.s, << [n |-> BuildPermutations(1).n,
                                 depth |-> BuildPermutations(1).depth,
                                 value |-> nil,
                                 generator |-> c.gen,
                                 cumuOpts |-> BuildPermutations(1).cumuOpts] >>,
                        <<>>, <<>>) :
             c \in {simplePermutation_Clone(NewSimplePermutation(elems),
                                            BuildPermutations(1).generator)}})

(***************************************************************************)
(* Vocabulary of the properties.                                           *)
(***************************************************************************)
Nodes == DOMAIN graph.Out
\* the starting-node list NewGraphPermutation was given
Starting == IF gens = <<>> THEN <<>> ELSE gens[1].current
\* a ForEach call has emitted all its leaves
ForEachComplete == emitted # <<>> /\ (pc = "ForEach" => worklist = <<>>)
Ordinals == {emitted[i].n : i \in 1..Len(emitted)}
EmittedPerms == {emitted[i].perm : i \in 1..Len(emitted)}
AllDefault == \A gn \in Nodes : graph.Callback[gn] = AvailableAnyCallback

\* the nodes reachable from the starting nodes along Out edges
RECURSIVE ReachFrom(_)
ReachFrom(S) ==
    LET T == S \cup {gn \in Nodes : \E m \in S : containsGraphNode(graph.Out[m], gn)}
    IN IF T = S THEN S ELSE ReachFrom(T)
Reachable == ReachFrom(Range(Starting))

\* the orderings of the reachable nodes in which every non-starting node
\* comes after one of its in-neighbours
ReferenceOrderings ==
    LET k == Cardinality(Reachable)
    IN {s \in [1..k -> Reachable] :
           /\ \A i, j \in 1..k : i # j => s[i] # s[j]
           /\ \A i \in 1..k :
                 s[i] \in Range(Starting)
                 \/ \E j \in 1..(i - 1) : containsGraphNode(graph.In[s[i]], s[j])}

(***************************************************************************)
(* C1.  Exhaustiveness against a reference: with default callbacks and     *)
(* pairwise distinct starting nodes, ForEach emits exactly the orderings   *)
(* of the reachable nodes in which every non-starting node is preceded by  *)
(* one of its in-neighbours, each once, each containing every reachable    *)
(* node.                                                                   *)
(***************************************************************************)
C1_Exhaustive ==
    (ForEachComplete /\ AllDefault /\ NoDuplicates(Starting)) =>
        /\ EmittedPerms = ReferenceOrderings
        /\ \A i, j \in 1..Len(emitted) : i # j => emitted[i].perm # emitted[j].perm
        /\ \A i \in 1..Len(emitted) : Range(emitted[i].perm) = Reachable

\* a completed run over a graph in which a non-starting node has two
\* in-neighbours
C1_Witness ==
    /\ ForEachComplete /\ AllDefault /\ NoDuplicates(Starting)
    /\ Len(emitted) >= 4
    /\ \E gn \in Nodes \ Range(Starting) : Len(graph.In[gn]) = 2

(***************************************************************************)
(* C2.  Ordinal uniqueness: no two leaves emitted during one ForEach run   *)
(* carry the same ordinal n.                                               *)
(***************************************************************************)
C2_OrdinalsUnique ==
    \A i, j \in 1..Len(emitted) : i # j => emitted[i].n # emitted[j].n

\* a completed run whose branches have different numbers of options
C2_Witness ==
    /\ ForEachComplete
    /\ Len(emitted) >= 4
    /\ \E i, j \in 1..Len(leaves) : leaves[i].cumuOpts # leaves[j].cumuOpts

(***************************************************************************)
(* C3.  Random-access round trip: for every leaf (n, perm) that ForEach    *)
(* emitted, Permutation(n) returns perm.                                   *)
(***************************************************************************)
C3_RoundTrip ==
    (pc = "idle" /\ returned # NoReturn) =>
        \A i \in 1..Len(emitted) :
            emitted[i].n = returned.permNum => returned.perm = emitted[i].perm

\* Permutation returned for an emitted ordinal whose decoding takes the
\* second option at one step and the first at another
C3_Witness ==
    /\ pc = "idle"
    /\ returned.permNum >= 2
    /\ Len(returned.perm) >= 3
    /\ \E i \in 1..Len(emitted) : emitted[i].n = returned.permNum

(***************************************************************************)
(* C4.  Ordinal contiguity.  As claimed: the ordinals of one ForEach run   *)
(* are exactly 0..K-1 for K leaves.                                        *)
(***************************************************************************)
C4_Contiguous ==
    ForEachComplete => Ordinals = 0..(Len(emitted) - 1)

UniformProducts ==
    \A i, j \in 1..Len(leaves) : leaves[i].cumuOpts = leaves[j].cumuOpts
LargestProduct ==
    CHOOSE m \in {leaves[i].cumuOpts : i \in 1..Len(leaves)} :
        \A i \in 1..Len(leaves) : leaves[i].cumuOpts <= m

\* C4 as amended: the ordinals of one ForEach run are K distinct numbers
\* below the largest product of option counts along a root-to-leaf path;
\* they are exactly 0..K-1 when every leaf has the same product and may
\* have gaps otherwise; Permutation(n) of an emitted n is that leaf.
C4_ContiguousWhenUniform ==
    ForEachComplete =>
        /\ Cardinality(Ordinals) = Len(emitted)
        /\ Ordinals \subseteq 0..(LargestProduct - 1)
        /\ UniformProducts => Ordinals = 0..(Len(emitted) - 1)
        /\ (pc = "idle" /\ returned.permNum \in Ordinals) =>
               \E i \in 1..Len(emitted) :
                   emitted[i] = [n |-> returned.permNum, perm |-> returned.perm]

\* six leaves with the same product, and Permutation(5) returned
C4_Witness ==
    /\ ForEachComplete /\ UniformProducts
    /\ Len(emitted) = 6
    /\ pc = "idle" /\ returned.permNum = 5

(***************************************************************************)
(* C5.  At-most-once membership: with pairwise distinct starting nodes,    *)
(* every permutation ForEach emits or Permutation returns contains each    *)
(* node at most once, cycles and self-edges included.                      *)
(***************************************************************************)
C5_AtMostOnce ==
    NoDuplicates(Starting) =>
        /\ \A i \in 1..Len(emitted) : NoDuplicates(emitted[i].perm)
        /\ NoDuplicates(returned.perm)
        /\ pc = "Permutation" => NoDuplicates(perm)

HasCycle ==
    \E gn, m \in Nodes :
        /\ containsGraphNode(graph.Out[gn], m)
        /\ containsGraphNode(graph.Out[m], gn)

\* a permutation through a cycle (or a self-edge) was emitted and returned
C5_Witness ==
    /\ NoDuplicates(Starting) /\ HasCycle
    /\ pc = "idle"
    /\ Len(returned.perm) >= 2
    /\ \E i \in 1..Len(emitted) : Len(emitted[i].perm) >= 2

(***************************************************************************)
(* C6.  Inhibition stickiness: once a node's callback has returned         *)
(* Inhibit on a branch, the node is in no frontier Generate returns later  *)
(* on that branch or a branch descended from it, and no emitted            *)
(* permutation contains it after the choice that inhibited it.             *)
(***************************************************************************)
StickyOn(t) ==
    \A i \in 1..Len(t.offered) : \A j \in i..Len(t.offered) :
        Range(t.offered[j]) \cap t.inhibitedAt[i] = {}

C6_InhibitionSticky ==
    /\ \A l \in 1..Len(trail) : StickyOn(trail[l])
    /\ \A l \in 1..Len(leaves) :
          /\ StickyOn(leaves[l])
          /\ \A i \in 1..Len(emitted[l].perm) : \A k \in i..Len(emitted[l].perm) :
                emitted[l].perm[k] \notin leaves[l].inhibitedAt[i]

\* the same with pairwise distinct starting nodes
C6_StickyWhenDistinct == NoDuplicates(Starting) => C6_InhibitionSticky

(***************************************************************************)
(* C7.  Join semantics: a non-starting node whose callback is              *)
(* AvailableAll(R) appears in an emitted permutation only after every node *)
(* of R; the diamond emits exactly its four orderings.                     *)
(***************************************************************************)
IsAvailableAll(cb) == cb.kind = "all" /\ cb.result = MakeAvailable

JoinedIn(s) ==
    \A k \in 1..Len(s) :
        (s[k] \notin Range(Starting) /\ IsAvailableAll(graph.Callback[s[k]])) =>
            \A r \in Range(graph.Callback[s[k]].required) :
                \E j \in 1..(k - 1) : s[j] = r

DiamondOrderings ==
    { <<"A1", "A2", "A3", "A4", "A5">>, <<"A1", "A2", "A4", "A3", "A5">>,
      <<"A2", "A1", "A3", "A4", "A5">>, <<"A2", "A1", "A4", "A3", "A5">> }

C7_Join ==
    /\ \A i \in 1..Len(emitted) : JoinedIn(emitted[i].perm)
    /\ (graph = DiamondGraph /\ ForEachComplete) =>
          EmittedPerms = DiamondOrderings /\ Len(emitted) = 4

\* the diamond has been enumerated
C7_Witness == graph = DiamondGraph /\ ForEachComplete /\ pc = "idle"

C9_BoundedChoices ==
    /\ \A l \in 1..Len(worklist) : worklist[l].depth <= Cardinality(Nodes)
    /\ pc = "Permutation" => Len(perm) <= Cardinality(Nodes)

\* the same with pairwise distinct starting nodes
C9_BoundedWhenDistinct == NoDuplicates(Starting) => C9_BoundedChoices

(***************************************************************************)
(* C10.  Frontier correctness: every element of an emitted permutation was *)
(* in the option list Generate returned for the prefix before it, and when *)
(* a frame is popped the prefix buffer holds the choices on the path from  *)
(* the root to the frame's parent.                                         *)
(***************************************************************************)
C10_FrontierCorrect ==
    /\ \A l \in 1..Len(emitted) :
          /\ Len(leaves[l].offered) = Len(emitted[l].perm) + 1
          /\ \A i \in 1..Len(emitted[l].perm) :
                emitted[l].perm[i] \in Range(leaves[l].offered[i])
    /\ (pc = "ForEach" /\ worklist # <<>>) =>
          LET cur == worklist[Len(worklist)]
              t == trail[Len(trail)]
          IN /\ cur.depth <= Len(perm)
             /\ cur.depth >= 1 =>
                   SubSeq(perm, 1, cur.depth)
                       = <<nil>> \o SubSeq(t.path, 1, cur.depth - 1)

\* a frame is about to be popped whose depth is two less than the length of
\* the prefix the buffer still holds
C10_Witness ==
    /\ pc = "ForEach" /\ worklist # <<>>
    /\ worklist[Len(worklist)].depth >= 1
    /\ Len(perm) >= worklist[Len(worklist)].depth + 2
    /\ emitted # <<>>

(***************************************************************************)
(* C11.  Clone isolation of the graph generator: after c = g.Clone(), what *)
(* Generate returns on either of them does not depend on the Generate      *)
(* calls made on the other: every generator returns what a generator       *)
(* sharing nothing returns for the same calls.                             *)
(***************************************************************************)
C11_CloneIsolated ==
    pc = "driven" => \A gp \in 1..Len(iso.last) : iso.last[gp] = iso.slast[gp]

\* one direction holds: the generator that has no parent is not affected by
\* the Generate calls made on its clones and their clones
C11_ReceiverIsolated ==
    pc = "driven" => iso.last[1] = iso.slast[1]

\* the Consume calls the consumers received so far, as (consumer, index) pairs
Deliveries == {d \in (1..Len(consumers)) \X (1..(Len(batches) * ppc.batchSize)) :
                  d[2] <= Len(consumers[d[1]].received)}
Delivery(d) == consumers[d[1]].received[d[2]]
\* the slices that were sent and whose elements have not all been consumed
SlicesInFlight ==
    Range(ch.buf) \cup {workers[w].perms : w \in {v \in 1..Len(workers) : workers[v].pc = "range"}}

(***************************************************************************)
(* C12.  ForEachPar exactly-once delivery: when ForEachPar returns, every  *)
(* leaf the inner ForEach emitted has been passed to Consume exactly once, *)
(* by one worker; none is lost, the final partial batch and the batches    *)
(* buffered at close included, and none is delivered twice.                *)
(***************************************************************************)
C12_ExactlyOnce ==
    /\ \A d \in Deliveries : Delivery(d).n \in Ordinals
    /\ \A d, e \in Deliveries : d # e => Delivery(d).n # Delivery(e).n
    /\ parpc = "returned" =>
          \A l \in 1..Len(emitted) : \E d \in Deliveries : Delivery(d).n = emitted[l].n

\* ForEachPar returned after three leaves went in batches of two to two
\* workers, each of which consumed some
C12_Witness ==
    /\ parpc = "returned"
    /\ Len(emitted) = 3 /\ ppc.batchSize = 2 /\ Len(workers) = 2
    /\ \A w \in 1..2 : \E d \in Deliveries : Delivery(d).by = w

(***************************************************************************)
(* C13.  ForEachPar drains to completion: with fair scheduling a call of   *)
(* ForEachPar returns, the producer does not block forever on the bounded  *)
(* channel, and when it returns the channel is empty and every worker has  *)
(* exited.                                                                 *)
(***************************************************************************)
C13_Drains ==
    /\ (parpc = "ForEach") ~> (parpc = "returned")
    /\ [](parpc = "returned" =>
             /\ ch.buf = <<>>
             /\ \A w \in 1..Len(workers) : workers[w].pc = "done")

\* ForEachPar returned after the producer had found the channel full
C13_Witness ==
    /\ parpc = "returned"
    /\ ch.blocked
    /\ Len(emitted) >= 3

C15_Copied ==
    /\ \A d \in Deliveries :
          \E l \in 1..Len(emitted) :
              /\ emitted[l].n = Delivery(d).n
              /\ Delivery(d).perm = leaves[l].path
    /\ \A sl \in SlicesInFlight : sl.batch # ppc.batch

\* a leaf is consumed when ForEach has overwritten the prefix buffer with
\* another branch, and a sent batch is still waiting on the channel
C15_Witness ==
    /\ parpc = "ForEach"
    /\ ch.buf # <<>>
    /\ \E d \in Deliveries :
          /\ Len(perm) > Len(Delivery(d).perm)
          /\ Delivery(d).perm # SubSeq(perm, 2, Len(Delivery(d).perm) + 1)

(***************************************************************************)
(* C16.  Idempotent edges: a second AddEdgeTo(a, b) leaves a.Out and b.In  *)
(* as the first call left them, no duplicate entry and the order           *)
(* unchanged, so the graph ForEach enumerates is the same whether an edge  *)
(* was added once or twice.                                                *)
(***************************************************************************)
C16_IdempotentEdges ==
    /\ \A gn \in Nodes : NoDuplicates(graph.Out[gn]) /\ NoDuplicates(graph.In[gn])
    /\ \A gn, gn2 \in Nodes :
          /\ AddEdgeTo(AddEdgeTo(graph, gn, gn2), gn, gn2) = AddEdgeTo(graph, gn, gn2)
          /\ containsGraphNode(graph.Out[gn], gn2) => AddEdgeTo(graph, gn, gn2) = graph

\* ForEach has enumerated a graph built by adding the same edge twice
C16_Witness ==
    /\ edgeCalls = 2
    /\ \E gn \in Nodes : /\ Len(graph.Out[gn]) = 1
                         /\ \A m \in Nodes \ {gn} : graph.Out[m] = <<>>
    /\ ForEachComplete
    /\ Len(emitted) >= 2

(***************************************************************************)
(* C17.  Parent state is never mutated: a Generate call changes no node    *)
(* state object owned by another generator; a state found in an ancestor,  *)
(* also through a reference cached in the local table, is copied for the   *)
(* generator before its inhibited, available or incomingVisited changes.   *)
(***************************************************************************)
\* the generator whose Generate the next step of ForEach or Permutation calls
Generating ==
    IF pc = "ForEach" /\ worklist # <<>> THEN worklist[Len(worklist)].generator
    ELSE IF pc = "Permutation" THEN pgen
    ELSE 0

C17_ParentNotMutated ==
    [][\A i \in 1..Len(sts) :
          (i <= Len(sts') /\ sts'[i] # sts[i]) => sts[i].permutation = Generating]_vars

\* a generator holds a cached reference to an ancestor's state of a node,
\* and a descendant owns a copy of that node's state that has since changed
C17_Witness ==
    /\ pc = "ForEach"
    /\ \E gp \in 1..Len(gens) : \E gn \in Nodes :
          /\ gens[gp].nodeState[gn] # 0
          /\ sts[gens[gp].nodeState[gn]].permutation # gp
    /\ \E i, j \in 1..Len(sts) :
          /\ sts[i].GraphNode = sts[j].GraphNode
          /\ gens[sts[j].permutation].parent = sts[i].permutation
          /\ sts[i].inhibited # sts[j].inhibited

(***************************************************************************)
(* C18.  Copy-on-write refines eager copying: ForEach and Permutation      *)
(* driven by the parent-chained generator produce the same (ordinal,       *)
(* permutation) pairs, and offer the same frontier after every prefix, as  *)
(* when every Clone copies the frontier and every node state at once.      *)
(***************************************************************************)
\* ForEach, lines 209-214, over a generator whose Clone copies eagerly
eagerChildGenerator(H, cur, idx) ==
    IF idx = 0 THEN [h |-> H, gen |-> cur.generator]
    ELSE eagerClone(H, cur.generator)

\* ForEach, lines 200-223, over the eager generator; a frame also carries
\* the frontiers offered on the way to it
RECURSIVE eagerPush(_, _, _, _, _, _)
eagerPush(H, wl, cur, options, offered, idx) ==
    IF idx >= Len(options) THEN [h |-> H, worklist |-> wl]
    ELSE Only({eagerPush(g.h,
                   Append(wl, [n |-> childN(cur, idx, Len(options)),
                               depth |-> cur.depth + 1,
                               value |-> options[idx + 1],
                               generator |-> g.gen,
                               cumuOpts |-> childCumuOpts(cur, Len(options)),
                               offered |-> offered]),
                   cur, options, offered, idx + 1) :
                 g \in {eagerChildGenerator(H, cur, idx)}})

RECURSIVE eagerForEach(_, _, _, _)
\* ForEach, lines 194-225, over the eager generator
eagerOptions(cur, rest, buf, g, out) ==
    IF Len(g.options) = 0
    THEN eagerForEach(g.h, rest, buf,
             Append(out, [n |-> cur.n, perm |-> Tail(buf),
                          offered |-> Append(cur.offered, g.options)]))
    ELSE Only({eagerForEach(r.h, r.worklist, buf, out) :
                 r \in {eagerPush(g.h, rest, cur, g.options,
                                  Append(cur.offered, g.options), 0)}})

\* ForEach, lines 184-226, over the eager generator: the leaves in order
eagerForEach(H, wl, buf, out) ==
    IF wl = <<>> THEN out
    ELSE Only({eagerOptions(wl[Len(wl)], SubSeq(wl, 1, Len(wl) - 1), b, g, out) :
                 b \in {prefixBuffer(buf, wl[Len(wl)])},
                 g \in {Generate(H, wl[Len(wl)].generator, wl[Len(wl)].value)}})

\* ForEach, lines 174-182, over the eager generator
eagerEnumeration ==
    Only({eagerForEach(c.h, << [n |-> p.n, depth |-> p.depth, value |-> nil,
                                generator |-> c.gen, cumuOpts |-> p.cumuOpts,
                                offered |-> <<>>] >>, <<>>, <<>>) :
             c \in {eagerClone(Heap, p.generator)}})

RECURSIVE eagerPermutationLoop(_, _, _, _, _)
\* Permutation, lines 249-253, over the eager generator
eagerPermutationChoose(g, gen, qr, out) ==
    Only({eagerPermutationLoop(c.h, c.gen, g.options[qr.rem + 1], qr.quo,
                               Append(out, g.options[qr.rem + 1])) :
             c \in {eagerClone(g.h, gen)}})

\* Permutation, lines 243-254, over the eager generator
eagerPermutationLoop(H, gen, val, n, out) ==
    Only({IF Len(g.options) = 0 THEN out
          ELSE eagerPermutationChoose(g, gen, quoRem(n, Len(g.options)), out) :
             g \in {Generate(H, gen, val)}})

\* Permutation(permNum) over the eager generator
eagerPermutation(permNum) ==
    Only({eagerPermutationLoop(c.h, c.gen, p.value, permNum, <<>>) :
             c \in {eagerClone(Heap, p.generator)}})

\* the leaves of a finished ForEach, with the frontiers offered on the way
EmittedWithOffers ==
    [i \in 1..Len(emitted) |-> [n |-> emitted[i].n, perm |-> emitted[i].perm,
                                offered |-> leaves[i].offered]]

C18_RefinesEager ==
    /\ (pc = "ForEach" /\ worklist = <<>>) => EmittedWithOffers = eagerEnumeration
    /\ (pc = "idle" /\ returned # NoReturn) =>
           returned.perm = eagerPermutation(returned.permNum)

\* ForEach finished a run in which a sibling branch was explored before the
\* branch of the first option, over nodes whose state the clones had to copy,
\* and Permutation has returned a permutation of three choices
C18_Witness ==
    /\ pc = "idle"
    /\ returned # NoReturn /\ Len(returned.perm) >= 3
    /\ Len(emitted) >= 3
    /\ ~AllDefault
    /\ \E i \in 1..Len(emitted) : emitted[i].n = returned.permNum

(***************************************************************************)
(* C19.  Clones are exhausted before their parent is mutated: in ForEach,  *)
(* when Generate is about to be called with a chosen value on the          *)
(* generator g of the frame on top of the worklist, no other frame of the  *)
(* worklist holds a generator that has g in its parent chain, nor g        *)
(* itself.                                                                 *)
(***************************************************************************)
\* generator gp is g or has g in its parent chain
RECURSIVE DescendsFrom(_, _)
DescendsFrom(gp, g) ==
    IF gp = g THEN TRUE
    ELSE IF gens[gp].parent = 0 THEN FALSE
    ELSE DescendsFrom(gens[gp].parent, g)

C19_ClonesExhausted ==
    (pc = "ForEach" /\ worklist # <<>> /\ worklist[Len(worklist)].value # nil) =>
        \A i \in 1..(Len(worklist) - 1) :
            ~DescendsFrom(worklist[i].generator, worklist[Len(worklist)].generator)

\* the frame on top holds a chosen value and a generator of which a clone
\* was made and advanced, and other frames are still on the worklist
C19_Witness ==
    /\ pc = "ForEach"
    /\ Len(worklist) >= 2
    /\ worklist[Len(worklist)].value # nil
    /\ \E gp \in 1..Len(gens) :
          /\ gens[gp].parent = worklist[Len(worklist)].generator
          /\ \E i \in 1..Len(sts) : sts[i].permutation = gp /\ sts[i].inhibited

(***************************************************************************)
(* C20.  State invariant, as claimed: in every generator that ForEach or   *)
(* Permutation still holds, a node whose state in the generator's view is  *)
(* inhibited is not available and is absent from the frontier, whether it  *)
(* was inhibited by its callback or marked inhibited when it was chosen.   *)
(***************************************************************************)
\* node gn is inhibited in the view of generator gp
InhibitedIn(gp, gn) ==
    /\ viewState(Heap, gp, gn) # 0
    /\ sts[viewState(Heap, gp, gn)].inhibited

\* node gn is available in the view of generator gp
AvailableIn(gp, gn) ==
    /\ viewState(Heap, gp, gn) # 0
    /\ sts[viewState(Heap, gp, gn)].available

\* the generators the running ForEach or Permutation holds
HeldGenerators ==
    (IF pc = "ForEach" THEN {worklist[i].generator : i \in 1..Len(worklist)} ELSE {})
        \cup (IF pc = "Permutation" THEN {pgen} ELSE {})

C20_StateInvariant ==
    \A gp \in HeldGenerators : \A gn \in Nodes :
        InhibitedIn(gp, gn) =>
            /\ ~AvailableIn(gp, gn)
            /\ gn \notin Range(gens[gp].current)

\* what holds instead: in a frame of ForEach an inhibited node that is still
\* marked available is one of the frame's chosen nodes, and with pairwise
\* distinct starting nodes an inhibited node is absent from the frontier
C20_ChosenStayAvailable ==
    pc = "ForEach" =>
        \A i \in 1..Len(worklist) : \A gn \in Nodes :
            InhibitedIn(worklist[i].generator, gn) =>
                /\ AvailableIn(worklist[i].generator, gn) => gn \in Range(trail[i].path)
                /\ NoDuplicates(Starting) =>
                      gn \notin Range(gens[worklist[i].generator].current)

(***************************************************************************)
(* C21.  Frontier/state agreement, as claimed: in every generator that     *)
(* ForEach or Permutation holds, a node is in the frontier if and only if  *)
(* the state visible for it has available = true and the node was not yet  *)
(* chosen in the branch.                                                   *)
(***************************************************************************)
\* the choices already passed to Generate on the way to a frame whose path
\* is path: its last element is the frame's value, still to be passed
ChosenBefore(path) ==
    IF path = <<>> THEN {} ELSE Range(SubSeq(path, 1, Len(path) - 1))

\* frontier and state of generator gp agree, chosen the nodes chosen so far
FrontierAgrees(gp, chosen) ==
    \A gn \in Nodes :
        gn \in Range(gens[gp].current) <=> (AvailableIn(gp, gn) /\ gn \notin chosen)

C21_FrontierAgreement ==
    /\ pc = "ForEach" =>
          \A i \in 1..Len(worklist) :
              FrontierAgrees(worklist[i].generator, ChosenBefore(trail[i].path))
    /\ pc = "Permutation" => FrontierAgrees(pgen, ChosenBefore(perm))

\* what holds: the same with pairwise distinct starting nodes
C21_AgreementWhenDistinct == NoDuplicates(Starting) => C21_FrontierAgreement

(***************************************************************************)
(* C22.  incomingVisited invariant: in every generator that ForEach or     *)
(* Permutation holds, the incomingVisited list of every node in view is    *)
(* duplicate-free, holds only nodes of the node's In list that were chosen *)
(* earlier in the branch, in the order in which they were chosen; and      *)
(* every callback invocation receives such a list, whose last element is   *)
(* the node just chosen.                                                   *)
(***************************************************************************)
\* the position of the first x in s
FirstPos(s, x) == CHOOSE i \in 1..Len(s) : s[i] = x /\ \A j \in 1..(i - 1) : s[j] # x

\* iv is a well-formed incomingVisited list of gn after the choices chosen
VisitedWellFormed(iv, gn, chosen) ==
    /\ NoDuplicates(iv)
    /\ \A k \in 1..Len(iv) : containsGraphNode(graph.In[gn], iv[k])
    /\ \A k \in 1..Len(iv) : iv[k] \in Range(chosen)
    /\ \A j, k \in 1..Len(iv) : j < k => FirstPos(chosen, iv[j]) < FirstPos(chosen, iv[k])

\* the choices made on the way to the frame of path, without its own value
ChoicesBefore(path) == IF path = <<>> THEN <<>> ELSE SubSeq(path, 1, Len(path) - 1)

\* every node in the view of gp has a well-formed incomingVisited
VisitedInView(gp, chosen) ==
    \A gn \in Nodes :
        viewState(Heap, gp, gn) # 0 =>
            VisitedWellFormed(sts[viewState(Heap, gp, gn)].incomingVisited, gn, chosen)

\* the callback invocations of the Generate call that the next step of
\* ForEach or Permutation makes, and the choices up to and with its argument
NextCalls ==
    IF pc = "ForEach" /\ worklist # <<>>
    THEN Generate(Heap, worklist[Len(worklist)].generator,
                  worklist[Len(worklist)].value).calls
    ELSE IF pc = "Permutation" THEN Generate(Heap, pgen, pval).calls
    ELSE <<>>

NextChoices ==
    IF pc = "ForEach" /\ worklist # <<>> THEN trail[Len(worklist)].path
    ELSE IF pc = "Permutation" THEN perm
    ELSE <<>>

C22_IncomingVisited ==
    /\ pc = "ForEach" =>
          \A i \in 1..Len(worklist) :
              VisitedInView(worklist[i].generator, ChoicesBefore(trail[i].path))
    /\ pc = "Permutation" => VisitedInView(pgen, ChoicesBefore(perm))
    /\ \A k \in 1..Len(NextCalls) :
          /\ VisitedWellFormed(NextCalls[k].reached, NextCalls[k].node, NextChoices)
          /\ NextCalls[k].reached # <<>>
          /\ NextCalls[k].reached[Len(NextCalls[k].reached)] = NextChoices[Len(NextChoices)]

\* a frame of ForEach sees a node with two visited predecessors, and the
\* next Generate invokes a callback with a list of two
C22_Witness ==
    /\ pc = "ForEach"
    /\ \E i \in 1..Len(worklist) : \E gn \in Nodes :
          /\ viewState(Heap, worklist[i].generator, gn) # 0
          /\ Len(sts[viewState(Heap, worklist[i].generator, gn)].incomingVisited) >= 2
    /\ \E k \in 1..Len(NextCalls) : Len(NextCalls[k].reached) >= 2

\* the same for generators driven directly: iso.chosen[gp] are the values
\* passed to Generate on gp and, before it was cloned, on its ancestors
C22_VisitedWhenDriven ==
    pc = "driven" => \A gp \in 1..Len(gens) : VisitedInView(gp, iso.chosen[gp])

(***************************************************************************)
(* C23.  Callback invocation discipline: a Generate call never invokes the *)
(* callback of a node that was chosen or inhibited by a callback earlier   *)
(* in the branch; it invokes the callback of a successor of lastChosen at  *)
(* most once, and exactly when the successor is not inhibited and          *)
(* lastChosen is not yet in its incomingVisited.                           *)
(***************************************************************************)
\* the argument of the Generate call that the next step makes
NextValue ==
    IF pc = "ForEach" /\ worklist # <<>> THEN worklist[Len(worklist)].value
    ELSE IF pc = "Permutation" THEN pval
    ELSE nil

\* lastChosen is in the incomingVisited that generator gp sees for gn
VisitedIn(gp, gn, lastChosen) ==
    /\ viewState(Heap, gp, gn) # 0
    /\ containsGraphNode(sts[viewState(Heap, gp, gn)].incomingVisited, lastChosen)

\* the successors whose callback gp.Generate(lastChosen) is to invoke
DueCallbacks(gp, lastChosen) ==
    IF lastChosen = nil THEN {}
    ELSE {gn \in Range(graph.Out[lastChosen]) :
             /\ gn # lastChosen
             /\ ~InhibitedIn(gp, gn)
             /\ ~VisitedIn(gp, gn, lastChosen)}

\* the nodes inhibited by a callback on the way to the frame on top
InhibitedBefore ==
    IF pc = "ForEach" /\ worklist # <<>> /\ trail[Len(worklist)].inhibitedAt # <<>>
    THEN trail[Len(worklist)].inhibitedAt[Len(trail[Len(worklist)].inhibitedAt)]
    ELSE {}

C23_CallbackDiscipline ==
    /\ \A k \in 1..Len(NextCalls) :
          /\ NextCalls[k].node \notin Range(NextChoices)
          /\ NextCalls[k].node \notin InhibitedBefore
          /\ ~InhibitedIn(Generating, NextCalls[k].node)
    /\ \A j, k \in 1..Len(NextCalls) : j # k => NextCalls[j].node # NextCalls[k].node
    /\ {NextCalls[k].node : k \in 1..Len(NextCalls)} = DueCallbacks(Generating, NextValue)

\* the next Generate is called with a node that has a successor that a
\* callback inhibited earlier in the branch, and invokes no callback for it
C23_Witness ==
    /\ pc = "ForEach" /\ worklist # <<>>
    /\ NextValue # nil
    /\ \E gn \in Range(graph.Out[NextValue]) :
          /\ gn \in InhibitedBefore
          /\ \A k \in 1..Len(NextCalls) : NextCalls[k].node # gn

\* the same for generators driven directly
C23_DisciplineWhenDriven ==
    pc = "driven" =>
        \A gp \in 1..Len(gens) : \A v \in Range(gens[gp].current) :
            /\ \A k \in 1..Len(Generate(Heap, gp, v).calls) :
                  /\ Generate(Heap, gp, v).calls[k].node \notin Range(iso.chosen[gp])
                  /\ Generate(Heap, gp, v).calls[k].node # v
            /\ {Generate(Heap, gp, v).calls[k].node :
                   k \in 1..Len(Generate(Heap, gp, v).calls)} = DueCallbacks(gp, v)

(***************************************************************************)
(* C24.  AvailableAll / InhibitAll semantics, as claimed: for every list   *)
(* required (the empty list and lists naming a node twice included) and    *)
(* every duplicate-free visited list, the callback of                      *)
(* NewAvailableAllCallback returns MakeAvailable if and only if every node *)
(* of required is in visited and NoChange otherwise, and the callback of   *)
(* NewInhibitAllCallback returns Inhibit under the same condition and      *)
(* NoChange otherwise.                                                     *)
(***************************************************************************)
\* every node of required is in reached
AllReached(required, reached) == Range(required) \subseteq Range(reached)

C24_AllSemantics ==
    call.fn = "all" =>
        call.result = IF AllReached(call.cb.required, call.reached)
                      THEN call.cb.result ELSE NoChange

\* what holds: the same for required lists that name no node twice, and for
\* every list the answer is the constructor's result or NoChange and is
\* NoChange unless every required node is reached
C24_WhenRequiredDistinct ==
    call.fn = "all" =>
        /\ NoDuplicates(call.cb.required) => C24_AllSemantics
        /\ call.result \in {call.cb.result, NoChange}
        /\ call.result # NoChange => AllReached(call.cb.required, call.reached)

(***************************************************************************)
(* C25.  InhibitThenAvailable precedence: a CombinationCallback asks every *)
(* sub-callback with the same node and visited list; the combiner returns  *)
(* Inhibit if any answer is Inhibit, otherwise MakeAvailable if any answer *)
(* is MakeAvailable, otherwise NoChange.  The result is the same for every *)
(* ordering of the sub-callbacks, and NoChange for an empty list.          *)
(***************************************************************************)
\* the sub-callbacks of the call in the order given by the permutation f
Reordered(f) == [i \in 1..Len(call.cb.callbacks) |-> call.cb.callbacks[f[i]]]

C25_InhibitThenAvailable ==
    call.fn = "combination" =>
        /\ Len(call.results) = Len(call.cb.callbacks)
        /\ \A i \in 1..Len(call.results) :
              call.results[i] = IncomingEdgesReached(call.cb.callbacks[i],
                                                     call.node, call.reached)
        /\ call.result = IF Inhibit \in Range(call.results) THEN Inhibit
                         ELSE IF MakeAvailable \in Range(call.results) THEN MakeAvailable
                         ELSE NoChange
        /\ \A f \in Permutations(1..Len(call.cb.callbacks)) :
              IncomingEdgesReached(NewCombinationCallback(Reordered(f)),
                                   call.node, call.reached) = call.result
        /\ call.cb.callbacks = <<>> => call.result = NoChange

\* a combination of three callbacks was asked whose answers are MakeAvailable,
\* then NoChange, then Inhibit
C25_Witness ==
    /\ call.fn = "combination"
    /\ call.results = <<MakeAvailable, NoChange, Inhibit>>
    /\ call.result = Inhibit

(***************************************************************************)
(* C26.  Exploration order: ForEach explores the options of a frame in     *)
(* reverse index order: of two leaves, the one emitted first took the      *)
(* higher option index in the frame where their paths part.  So the leaf   *)
(* that took option 0 at every step, with ordinal 0, is emitted last.      *)
(***************************************************************************)
\* the option indices c1 and c2 part at a frame where c1 takes the higher one
PartsHigher(c1, c2) ==
    \E k \in 1..Len(c1) :
        /\ k <= Len(c2)
        /\ \A m \in 1..(k - 1) : c1[m] = c2[m]
        /\ c1[k] > c2[k]

C26_ReverseIndexOrder ==
    /\ \A i, j \in 1..Len(leaves) :
          i < j => PartsHigher(leaves[i].choice, leaves[j].choice)
    /\ (pc = "ForEach" /\ worklist = <<>> /\ emitted # <<>>) =>
          /\ emitted[Len(emitted)].n = 0
          /\ \A k \in 1..Len(leaves[Len(leaves)].choice) :
                leaves[Len(leaves)].choice[k] = 0
          /\ \A i \in 1..(Len(emitted) - 1) : emitted[i].n # 0

\* a run is complete in which a frame below the root offered two options
C26_Witness ==
    /\ pc = "ForEach" /\ worklist = <<>>
    /\ Len(emitted) >= 4
    /\ \E i \in 1..Len(leaves) : \E k \in 2..Len(leaves[i].choice) :
          leaves[i].choice[k] = 1 /\ leaves[i].choice[1] = 1

(***************************************************************************)
(* C27.  Ordinal assignment and the worklist discipline, as claimed: if    *)
(* ForEach took the frames of its worklist first-in first-out, with        *)
(* everything else unchanged, it would emit the same ordinal-to-           *)
(* permutation map.                                                        *)
(***************************************************************************)
RECURSIVE fifoForEach(_, _, _, _)
\* ForEach, lines 194-225, unchanged
fifoOptions(cur, rest, buf, g, out) ==
    IF Len(g.options) = 0
    THEN fifoForEach(g.h, rest, buf, Append(out, [n |-> cur.n, perm |-> Tail(buf)]))
    ELSE Only({fifoForEach(r.h, r.worklist, buf, out) :
                 r \in {pushChildren(g.h, rest, cur, g.options, 0)}})

\* ForEach, lines 184-226, taking the first frame of the worklist instead of
\* the last: the leaves in the order emitted
fifoForEach(H, wl, buf, out) ==
    IF wl = <<>> THEN out
    ELSE Only({fifoOptions(wl[1], Tail(wl), b, g, out) :
                 b \in {prefixBuffer(buf, wl[1])},
                 g \in {Generate(H, wl[1].generator, wl[1].value)}})

\* ForEach, lines 174-182, followed by the first-in first-out loop
fifoEnumeration ==
    Only({fifoForEach(c.h, << [n |-> p.n, depth |-> p.depth, value |-> nil,
                               generator |-> c.gen, cumuOpts |-> p.cumuOpts] >>,
                      <<>>, <<>>) :
             c \in {graphPermutation_Clone(Heap, p.generator)}})

C27_FifoSameMap ==
    (pc = "ForEach" /\ worklist = <<>>) => Range(fifoEnumeration) = Range(emitted)

\* C27, what holds: the ordinal of a leaf is the mixed-radix number of the
\* option indices taken on its path, the radices being the option counts
\* offered on the path; it is computed from the indices and not from the
\* order in which frames are taken.
RECURSIVE MixedRadix(_, _, _)
MixedRadix(choice, offered, k) ==
    IF k > Len(choice) THEN 0
    ELSE choice[k] + Len(offered[k]) * MixedRadix(choice, offered, k + 1)

C27_OrdinalFromIndices ==
    /\ Len(leaves) = Len(emitted)
    /\ \A i \in 1..Len(leaves) :
          /\ Len(leaves[i].offered) = Len(leaves[i].choice) + 1
          /\ \A k \in 1..Len(leaves[i].choice) :
                /\ leaves[i].choice[k] < Len(leaves[i].offered[k])
                /\ leaves[i].offered[k][leaves[i].choice[k] + 1] = leaves[i].path[k]
          /\ emitted[i].n = MixedRadix(leaves[i].choice, leaves[i].offered, 1)

\* a leaf was emitted that took the second option at two steps
C27_Witness ==
    /\ pc = "ForEach"
    /\ \E i \in 1..Len(leaves) :
          /\ emitted[i].n >= 3
          /\ \E j, k \in 1..Len(leaves[i].choice) :
                j < k /\ leaves[i].choice[j] = 1 /\ leaves[i].choice[k] = 1

\* C27, the two things the first-in first-out order breaks, apart: the loop
\* with a prefix of its own in every frame, and clones made through the
\* parent chain (eager = FALSE) or by copying every node state (eager = TRUE)
ownChildGenerator(eager, H, cur, idx) ==
    IF idx = 0 THEN [h |-> H, gen |-> cur.generator]
    ELSE IF eager THEN eagerClone(H, cur.generator)
    ELSE graphPermutation_Clone(H, cur.generator)

RECURSIVE ownPush(_, _, _, _, _, _)
ownPush(eager, H, wl, cur, options, idx) ==
    IF idx >= Len(options) THEN [h |-> H, worklist |-> wl]
    ELSE Only({ownPush(eager, g.h,
                   Append(wl, [n |-> childN(cur, idx, Len(options)),
                               depth |-> cur.depth + 1,
                               value |-> options[idx + 1],
                               generator |-> g.gen,
                               cumuOpts |-> childCumuOpts(cur, Len(options)),
                               prefix |-> Append(cur.prefix, options[idx + 1])]),
                   cur, options, idx + 1) :
                 g \in {ownChildGenerator(eager, H, cur, idx)}})

RECURSIVE ownFifoForEach(_, _, _, _)
ownFifoOptions(eager, cur, rest, g, out) ==
    IF Len(g.options) = 0
    THEN ownFifoForEach(eager, g.h, rest, Append(out, [n |-> cur.n, perm |-> cur.prefix]))
    ELSE Only({ownFifoForEach(eager, r.h, r.worklist, out) :
                 r \in {ownPush(eager, g.h, rest, cur, g.options, 0)}})

ownFifoForEach(eager, H, wl, out) ==
    IF wl = <<>> THEN out
    ELSE Only({ownFifoOptions(eager, wl[1], Tail(wl), g, out) :
                 g \in {Generate(H, wl[1].generator, wl[1].value)}})

ownFifoEnumeration(eager) ==
    Only({ownFifoForEach(eager, c.h,
              << [n |-> p.n, depth |-> p.depth, value |-> nil, generator |-> c.gen,
                  cumuOpts |-> p.cumuOpts, prefix |-> <<>>] >>, <<>>) :
             c \in {graphPermutation_Clone(Heap, p.generator)}})

\* with a prefix per frame and parent-chained clones the map still differs
C27_FifoOwnPrefix ==
    (pc = "ForEach" /\ worklist = <<>>) => Range(ownFifoEnumeration(FALSE)) = Range(emitted)

\* with a prefix per frame and clones that share nothing the map is the same
C27_FifoOwnPrefixEager ==
    (pc = "ForEach" /\ worklist = <<>>) => Range(ownFifoEnumeration(TRUE)) = Range(emitted)

(***************************************************************************)
(* C28.  Equivalence of the two callback surfaces: the generator that asks *)
(* InhibitOn and then, for a node not yet available, AvailableOn, and the  *)
(* generator that asks one callback (Inhibit if inhibitOn holds, else      *)
(* MakeAvailable if availableOn holds, else NoChange) return the same      *)
(* frontiers after every sequence of Generate and Clone calls.             *)
(***************************************************************************)
C28_SameFrontiers ==
    pc = "surfaces" =>
        /\ \A gp \in 1..Len(iso.last) : iso.last[gp] = iso.slast[gp]
        /\ Len(gens) = Len(iso.shadow.gens)
        /\ \A gp \in 1..Len(gens) : gens[gp].current = iso.shadow.gens[gp].current

\* a clone was made and a node whose two conditions both hold once all its
\* incoming nodes are visited was made available first and then inhibited
C28_Witness ==
    /\ pc = "surfaces"
    /\ Len(gens) >= 2
    /\ InhibitOn("c") = ConditionAll /\ AvailableOn("c") = ConditionAny
    /\ \E gp \in 2..Len(gens) :
          /\ InhibitedIn(gp, "c")
          /\ "c" \notin Range(iso.chosen[gp])
          /\ Len(iso.chosen[gp]) >= 2

(***************************************************************************)
(* C29.  The generator without dependencies is the edge-free special case: *)
(* for pairwise distinct elements, ForEach over NewSimplePermutation(elems)*)
(* and ForEach over NewGraphPermutation of as many nodes without edges,    *)
(* given in the same order, emit the same ordinals with the same           *)
(* orderings: all k! orderings, each once, with the ordinals 0..k!-1.      *)
(***************************************************************************)
EdgeFree == \A gn \in Range(Starting) : graph.Out[gn] = <<>> /\ graph.In[gn] = <<>>

RECURSIVE Factorial(_)
Factorial(k) == IF k = 0 THEN 1 ELSE k * Factorial(k - 1)

\* the orderings of the elements of s
Orderings(s) ==
    {o \in [1..Len(s) -> Range(s)] : \A i, j \in 1..Len(s) : i # j => o[i] # o[j]}

C29_EdgeFreeIsSimple ==
    (ForEachComplete /\ EdgeFree /\ NoDuplicates(Starting)) =>
        /\ emitted = simpleEnumeration(Starting).emitted
        /\ EmittedPerms = Orderings(Starting)
        /\ Len(emitted) = Factorial(Len(Starting))
        /\ Ordinals = 0..(Factorial(Len(Starting)) - 1)

\* a completed run over a, b, c without edges emitted six permutations
C29_Witness ==
    /\ ForEachComplete /\ EdgeFree
    /\ Starting = <<"a", "b", "c">>
    /\ Len(emitted) = 6
    /\ emitted = simpleEnumeration(Starting).emitted

(***************************************************************************)
(* C30.  The root generator is never changed: ForEach and Permutation work *)
(* on clones of the generator passed to BuildPermutations and change       *)
(* neither its frontier nor its node-state table nor a node state it owns, *)
(* so that every ForEach and Permutation call, whatever was called before, *)
(* returns what the first call on the generator as NewGraphPermutation     *)
(* made it returns.                                                        *)
(***************************************************************************)
\* the node states the root generator owns
RootStates == {i \in 1..Len(sts) : sts[i].permutation = p.generator}

\* ForEach on the generator as NewGraphPermutation made it
FirstForEach ==
    Only({eagerForEach(c.h, << [n |-> p.n, depth |-> p.depth, value |-> nil,
                                generator |-> c.gen, cumuOpts |-> p.cumuOpts,
                                offered |-> <<>>] >>, <<>>, <<>>) :
             c \in {eagerClone(NewGraphPermutation(Starting), 1)}})

\* Permutation(permNum) on the generator as NewGraphPermutation made it
FirstPermutation(permNum) ==
    Only({eagerPermutationLoop(c.h, c.gen, p.value, permNum, <<>>) :
             c \in {eagerClone(NewGraphPermutation(Starting), 1)}})

C30_RootNeverChanged ==
    /\ [][pc # "build" =>
             /\ p' = p
             /\ gens'[p.generator] = gens[p.generator]
             /\ \A i \in RootStates : sts'[i] = sts[i]]_vars
    /\ []((pc = "ForEach" /\ worklist = <<>>) =>
             emitted = [i \in 1..Len(FirstForEach) |->
                           [n |-> FirstForEach[i].n, perm |-> FirstForEach[i].perm]])
    /\ []((pc = "idle" /\ returned # NoReturn) =>
             returned.perm = FirstPermutation(returned.permNum))
    /\ []((ForEachComplete /\ EdgeFree /\ NoDuplicates(Starting)) =>
             simpleEnumeration(Starting).s[1] = NewSimplePermutation(Starting)[1])

\* a ForEach run that follows an earlier run is complete, over nodes with
\* edges and a callback that is not the default, and left clones behind
C30_Witness ==
    /\ pc = "ForEach" /\ worklist = <<>>
    /\ previous # <<>>
    /\ Len(emitted) >= 2
    /\ ~AllDefault
    /\ Len(gens) > 2
    /\ gens[p.generator].current = Starting

(***************************************************************************)
(* C31.  Permutation is total on the ordinals n >= 0: for every n, the     *)
(* ordinals ForEach never emits and those at or above the number of leaves *)
(* included, Permutation(n) terminates, never indexes outside the option   *)
(* list, and returns a permutation that ForEach emits with an ordinal      *)
(* n' <= n.                                                                *)
(***************************************************************************)
\* the index Permutation is about to take lies in the option list
ChoiceInRange ==
    \A g \in {Generate(Heap, pgen, pval)} :
        Len(g.options) # 0 =>
            /\ quoRem(pn.n, Len(g.options)).rem + 1 \in 1..Len(g.options)
            /\ quoRem(pn.n, Len(g.options)).quo >= 0

C31_PermutationTotal ==
    /\ [](pc = "Permutation" => (pn.n >= 0 /\ ChoiceInRange))
    /\ (pc = "Permutation") ~> (pc = "idle" /\ returned # NoReturn)
    /\ []((pc = "idle" /\ returned # NoReturn /\ emitted # <<>>) =>
             \E i \in 1..Len(emitted) :
                 /\ emitted[i].perm = returned.perm
                 /\ emitted[i].n <= returned.permNum)

\* Permutation returned for an ordinal that ForEach did not emit and that is
\* not smaller than the number of leaves, after two choices or more
C31_Witness ==
    /\ pc = "idle" /\ returned # NoReturn /\ emitted # <<>>
    /\ returned.permNum \notin Ordinals
    /\ returned.permNum >= Len(emitted)
    /\ Len(returned.perm) >= 2

\* Permutation returned for an ordinal that ForEach did not emit although
\* ForEach emitted a larger one
C31_WitnessGap ==
    /\ pc = "idle" /\ returned # NoReturn /\ emitted # <<>>
    /\ returned.permNum \notin Ordinals
    /\ \E i \in 1..Len(emitted) : emitted[i].n > returned.permNum

(***************************************************************************)
(* C32.  The frontier is duplicate-free, as claimed: for every graph,      *)
(* callbacks and starting-node list given to NewGraphPermutation, the      *)
(* frontier of every generator, which Generate returns, holds no node      *)
(* twice.                                                                  *)
(***************************************************************************)
C32_FrontierDuplicateFree ==
    \A gp \in 1..Len(gens) : NoDuplicates(gens[gp].current)

\* what holds: the same when the starting-node list names no node twice
C32_DuplicateFreeWhenDistinct ==
    NoDuplicates(Starting) => C32_FrontierDuplicateFree

(***************************************************************************)
(* C33.  Ordinal bound: every frame on the worklist of ForEach, and so     *)
(* every frame it pushes or pops, has 0 <= n < cumuOpts, where cumuOpts is *)
(* the product of the option counts offered at the steps of the frame's    *)
(* prefix; every emitted ordinal is smaller than the product of the option *)
(* counts on its own path from the root to the leaf.                       *)
(***************************************************************************)
\* the product of the lengths of the first k option lists of offered
RECURSIVE OptionProduct(_, _)
OptionProduct(offered, k) ==
    IF k = 0 THEN 1 ELSE Len(offered[k]) * OptionProduct(offered, k - 1)

C33_OrdinalBound ==
    /\ Len(trail) = Len(worklist)
    /\ \A i \in 1..Len(worklist) :
          /\ 0 <= worklist[i].n
          /\ worklist[i].n < worklist[i].cumuOpts
          /\ worklist[i].cumuOpts = OptionProduct(trail[i].offered, Len(trail[i].offered))
    /\ \A i \in 1..Len(leaves) :
          /\ 0 <= emitted[i].n
          /\ emitted[i].n < leaves[i].cumuOpts
          /\ leaves[i].cumuOpts = OptionProduct(leaves[i].offered, Len(leaves[i].choice))

\* a frame two steps below the root is on the worklist with an ordinal that
\* is not zero, under three options and then two, and a leaf was emitted
\* with the largest ordinal its path allows
C33_Witness ==
    /\ pc = "ForEach"
    /\ \E i \in 1..Len(worklist) :
          /\ worklist[i].depth = 2
          /\ worklist[i].n > 0
          /\ Len(trail[i].offered[1]) = 3 /\ Len(trail[i].offered[2]) = 2
    /\ \E i \in 1..Len(leaves) :
          emitted[i].n = leaves[i].cumuOpts - 1 /\ leaves[i].cumuOpts >= 4

====
